---------------------------- MODULE Spec2Model ----------------------------
(***************************************************************************)
(* A model of the stack_alloc allocator: the bitmapped chunk stack         *)
(* (bitmapped_stack.rs), the chain of same-sized stacks (SizedAllocator)   *)
(* and the bucket router (bucketed.rs).                                    *)
(*                                                                         *)
(* A 64-bit bitmap is the set of its set bit positions (a subset of        *)
(* 0..63); addresses are plain integers.                                   *)
(***************************************************************************)
EXTENDS Integers, Sequences, FiniteSets, TLC

VARIABLES
    debug_assertions, \* build profile: TRUE = debug_assert! and overflow checks on
    buckets,          \* Buckets: one chain (sequence of nodes, head first) per field
    nblocks,          \* number of blocks the MemorySource has handed out
    live,             \* the caller's live allocations: [ptr, size, align, id]
    mem,              \* sparse memory: written address -> value
    fatal,            \* TRUE once a panic (expect/unwrap/unreachable/assert) ended the process
    last,             \* the last router call and what it returned
    step,             \* position of a scripted scenario
    stack,            \* a stand-alone BitmappedStack (as in the a_test unit test)
    slive,            \* live allocations of the stand-alone stack: [ptr, size]
    slast,            \* the last call on the stand-alone stack and its result
    csize,            \* input of SizeCategory::choose
    ccat,             \* result of SizeCategory::choose on csize (file "none" before the call)
    lock,             \* Allocator.lock, the AtomicBool of the spin latch
    threads           \* per thread: where it is inside an entry point of the Allocator

vars == << debug_assertions, buckets, nblocks, live, mem, fatal, last, step,
           stack, slive, slast, csize, ccat, lock, threads >>

routerVars == << buckets, nblocks, live, mem, fatal, last, step >>
stackVars  == << stack, slive, slast >>
chooseVars == << csize, ccat >>
latchVars  == << lock, threads >>

---------------------------------------------------------------------------
(* Program constants *)

STACK_SIZE == 64
BLOCK_SIZE == 262144
BLOCK_ALIGN == 4096
VERY_SMALL_CHUNK_SIZE == 1
SMALL_CHUNK_SIZE == 8
MEDIUM_CHUNK_SIZE == 64
LARGE_CHUNK_SIZE == 512
VERY_LARGE_CHUNK_SIZE == 4096
METADATA_CHUNK_SIZE == 64

\* Layout::new::<SizedAllocator>(): a stack (4 words), the backup link and the
\* cached largest-free count; one metadata chunk holds it.
HEADER_SIZE == 48
HEADER_ALIGN == 8

---------------------------------------------------------------------------
(* Helpers on integers and bit sets *)

MinInt(a, b) == IF a <= b THEN a ELSE b

Bits == 0 .. 63

\* u64::leading_zeros: the number of positions above every set bit
LeadingZeros(bitmap) == Cardinality({ i \in Bits : \A j \in bitmap : j < i })

\* 1_u64.wrapping_shl(n).wrapping_sub(1): the shift amount is taken modulo 64
WrappingMaskBase(num_chunks) == { i \in Bits : i < (num_chunks % 64) }

\* (1 << n) - 1 without wrapping (all_allocated / all_deallocated); n < 64 there
PlainMaskBase(num_chunks) == { i \in Bits : i < (num_chunks % 64) }

\* mask_base << start on a u64 (release arithmetic: the amount is masked)
ShiftLeft(mask_base, start) == { i + (start % 64) : i \in mask_base } \cap Bits

\* ops::Range::size_hint().0
RangeLen(start, end) == IF end > start THEN end - start ELSE 0

---------------------------------------------------------------------------
(* bitmapped_stack.rs *)

round_up_to_alignment(x, alignment) ==
    IF x % alignment # 0
    THEN (x + alignment) - ((x + alignment) % alignment)
    ELSE x

NewStack(pointer, chunk_size) ==
    [ bottom |-> pointer, current_height |-> 0, chunk_size |-> chunk_size, bitmap |-> {} ]

chunk_to_ptr(s, chunk) == s.bottom + chunk * s.chunk_size

ptr_to_chunk(s, ptr) == (ptr - s.bottom) \div s.chunk_size

owns(s, pointer) ==
    /\ chunk_to_ptr(s, 0) <= pointer
    /\ pointer <= chunk_to_ptr(s, STACK_SIZE - 1)

\* Sensitivity variant of is_empty: no stack ever reports empty
is_empty_never(s) == s.current_height < 0

is_empty(s) == s.current_height = 0

chunks_for(s, bytes) ==
    (bytes \div s.chunk_size) + (IF bytes % s.chunk_size # 0 THEN 1 ELSE 0)

bitmap_allocate(s, start, end) ==
    [ s EXCEPT !.bitmap = @ \cup ShiftLeft(WrappingMaskBase(RangeLen(start, end)), start) ]

\* Sensitivity variant of bitmap_deallocate: the mask is not shifted to start, so
\* the chunks below the range are cleared with it
bitmap_deallocate_unshifted(s, start, end) ==
    [ s EXCEPT !.bitmap = @ \ ShiftLeft(WrappingMaskBase(end), 0) ]

bitmap_deallocate(s, start, end) ==
    [ s EXCEPT !.bitmap = @ \ ShiftLeft(WrappingMaskBase(RangeLen(start, end)), start) ]

all_deallocated(s, start, end) ==
    s.bitmap \cap ShiftLeft(PlainMaskBase(RangeLen(start, end)), start) = {}

shrink_height(s) == [ s EXCEPT !.current_height = 64 - LeadingZeros(s.bitmap) ]

\* BitmappedStack::alloc: [ok, ptr, s]
bottom_of_alloc(s, align) ==
    ptr_to_chunk(s, round_up_to_alignment(chunk_to_ptr(s, s.current_height), align))

stack_alloc(s, size, align) ==
    LET bottom == bottom_of_alloc(s, align)
        new_height == bottom + chunks_for(s, size)
    IN  IF bottom * s.chunk_size + size > STACK_SIZE * s.chunk_size
        THEN [ ok |-> FALSE, ptr |-> 0, s |-> s ]
        ELSE [ ok |-> TRUE,
               ptr |-> chunk_to_ptr(s, bottom),
               s |-> [ bitmap_allocate(s, bottom, new_height)
                         EXCEPT !.current_height = new_height ] ]

\* Sensitivity variant of stack_dealloc: the bits of the freed range stay set
stack_dealloc_keeping_bits(s, ptr, size) ==
    LET start_chunk == ptr_to_chunk(s, ptr)
        end_chunk == start_chunk + chunks_for(s, size)
    IN  IF s.current_height = end_chunk
        THEN shrink_height([ s EXCEPT !.current_height = start_chunk ])
        ELSE s

\* BitmappedStack::dealloc
stack_dealloc(s, ptr, size) ==
    LET start_chunk == ptr_to_chunk(s, ptr)
        end_chunk == start_chunk + chunks_for(s, size)
        cleared == bitmap_deallocate(s, start_chunk, end_chunk)
    IN  IF s.current_height = end_chunk
        THEN shrink_height([ cleared EXCEPT !.current_height = start_chunk ])
        ELSE cleared

\* BitmappedStack::shrink_in_place
stack_shrink_in_place(s, ptr, old_size, new_size) ==
    LET new_end == ptr_to_chunk(s, ptr) + chunks_for(s, new_size)
        old_end == ptr_to_chunk(s, ptr) + chunks_for(s, old_size)
        cleared == bitmap_deallocate(s, new_end, old_end)
    IN  IF s.current_height = old_end
        THEN IF new_size = 0
             THEN shrink_height([ cleared EXCEPT !.current_height = new_end ])
             ELSE [ cleared EXCEPT !.current_height = new_end ]
        ELSE cleared

\* `mask_base << chunk_range.start` overflows (a panic with overflow checks on) when
\* the range starts at chunk 64: shrink_in_place of a range that ends at the top.
stack_shrink_overflows(s, ptr, new_size) ==
    ptr_to_chunk(s, ptr) + chunks_for(s, new_size) >= 64

\* BitmappedStack::grow_in_place: [ok, s]
stack_grow_in_place(s, ptr, old_size, new_size) ==
    LET new_end == ptr_to_chunk(s, ptr) + chunks_for(s, new_size)
        old_end == ptr_to_chunk(s, ptr) + chunks_for(s, old_size)
    IN  IF old_end = new_end THEN [ ok |-> TRUE, s |-> s ]
        ELSE IF new_end > STACK_SIZE THEN [ ok |-> FALSE, s |-> s ]
        ELSE IF old_end = s.current_height
             THEN [ ok |-> TRUE,
                    s |-> bitmap_allocate([ s EXCEPT !.current_height = new_end ],
                                          old_end, new_end) ]
        ELSE IF all_deallocated(s, old_end, new_end)
             THEN [ ok |-> TRUE, s |-> bitmap_allocate(s, old_end, new_end) ]
        ELSE [ ok |-> FALSE, s |-> s ]

\* `(1 << n) - 1` in all_deallocated overflows (a panic with overflow checks on)
\* when grow_in_place asks for 64 more chunks below the top
stack_grow_overflows(s, ptr, old_size, new_size) ==
    LET new_end == ptr_to_chunk(s, ptr) + chunks_for(s, new_size)
        old_end == ptr_to_chunk(s, ptr) + chunks_for(s, old_size)
    IN  /\ old_end # new_end
        /\ new_end <= STACK_SIZE
        /\ old_end # s.current_height
        /\ new_end - old_end >= 64

---------------------------------------------------------------------------
(* The chain node (SizedAllocator with from_memory_chunk / DeallocResponse). *)
(* A chain is the sequence of its nodes, head first; node i+1 is the backup  *)
(* of node i.  A node: its stack, the cached largest-free count and the      *)
(* address of its header (0 while the node is not yet stored in a header).   *)

\* the longest run of free chunks of a bitmap
FreeRunEnd(bitmap, i) ==
    CHOOSE j \in i .. 63 : (j = 63 \/ (j + 1) \in bitmap) /\ \A k \in i .. j : k \notin bitmap

LargestFreeRun(bitmap) ==
    LET starts == { i \in Bits : i \notin bitmap /\ (i = 0 \/ (i - 1) \in bitmap) }
        lens == { FreeRunEnd(bitmap, i) - i + 1 : i \in starts } \cup { 0 }
    IN  CHOOSE n \in lens : \A m \in lens : m <= n

from_memory_chunk(chunk_size, memory, old_chain) ==
    << [ stack |-> NewStack(memory, chunk_size), largest_free |-> STACK_SIZE, hdr |-> 0 ] >>
      \o old_chain

\* MetadataBox::from_pointer_data(ptr, node): the head node now lives at ptr
from_pointer_data(ptr, chain) == [ chain EXCEPT ![1].hdr = ptr ]

\* the one element of a singleton set: Only({ e : x \in { d } }) is e with x
\* standing for the value of d
Only(S) == CHOOSE x \in S : TRUE

refresh(node, s) ==
    Only({ [ node EXCEPT !.stack = t, !.largest_free = LargestFreeRun(t.bitmap) ] : t \in { s } })

\* index of the first node whose stack owns ptr, 0 when none
RECURSIVE OwnerFrom(_, _, _)
OwnerFrom(chain, ptr, i) ==
    IF i > Len(chain) THEN 0
    ELSE IF owns(chain[i].stack, ptr) THEN i
    ELSE OwnerFrom(chain, ptr, i + 1)

chain_owner(chain, ptr) == Only({ OwnerFrom(c, ptr, 1) : c \in { chain } })

chain_owns(chain, ptr) == chain_owner(chain, ptr) # 0

\* allocate: fast-reject on the cached count, else the local stack, else the backup
RECURSIVE AllocFrom(_, _, _, _)
AllocFrom(chain, size, align, i) ==
    IF i > Len(chain) THEN [ ok |-> FALSE, ptr |-> 0, chain |-> chain ]
    ELSE IF size > chain[i].largest_free * chain[i].stack.chunk_size
         THEN AllocFrom(chain, size, align, i + 1)
    ELSE Only({ IF r.ok
                THEN [ ok |-> TRUE, ptr |-> r.ptr,
                       chain |-> [ chain EXCEPT ![i] = refresh(@, r.s) ] ]
                ELSE AllocFrom(chain, size, align, i + 1)
              : r \in { stack_alloc(chain[i].stack, size, align) } })

chain_alloc(chain, size, align) ==
    Only({ AllocFrom(c, size, align, 1) : c \in { chain } })

RemoveAt(chain, i) == SubSeq(chain, 1, i - 1) \o SubSeq(chain, i + 1, Len(chain))

\* deallocate: [chain, response, node, panic]
\*   "Collapse"  the head's stack became empty (the node stays linked)
\*   "FreeNode"  a node below the head became empty and was spliced out: node
\*   panic       no node owns the pointer
DeallocAt(chain, i, n) ==
    IF ~ is_empty(n.stack)
    THEN [ chain |-> [ chain EXCEPT ![i] = n ], response |-> "None",
           node |-> << >>, panic |-> FALSE ]
    ELSE IF i = 1
    THEN [ chain |-> [ chain EXCEPT ![i] = n ], response |-> "Collapse",
           node |-> << >>, panic |-> FALSE ]
    ELSE [ chain |-> RemoveAt(chain, i), response |-> "FreeNode",
           node |-> << n >>, panic |-> FALSE ]

chain_dealloc(chain, ptr, size) ==
    Only({ Only({ IF i = 0
                  THEN [ chain |-> c, response |-> "None", node |-> << >>, panic |-> TRUE ]
                  ELSE Only({ DeallocAt(c, i, n)
                            : n \in { refresh(c[i], stack_dealloc(c[i].stack, ptr, size)) } })
                : i \in { chain_owner(c, ptr) } })
         : c \in { chain } })

\* shrink_in_place: [chain, panic]
chain_shrink_in_place(chain, ptr, old_size, new_size, checked) ==
    Only({ Only({ IF i = 0 THEN [ chain |-> c, panic |-> TRUE ]
                  ELSE IF checked /\ stack_shrink_overflows(c[i].stack, ptr, new_size)
                       THEN [ chain |-> c, panic |-> TRUE ]
                  ELSE [ chain |-> [ c EXCEPT ![i] =
                            refresh(@, stack_shrink_in_place(@.stack, ptr, old_size, new_size)) ],
                         panic |-> FALSE ]
                : i \in { chain_owner(c, ptr) } })
         : c \in { chain } })

\* grow_in_place: [ok, chain, panic]
chain_grow_in_place(chain, ptr, old_size, new_size) ==
    Only({ Only({ IF i = 0 THEN [ ok |-> FALSE, chain |-> c, panic |-> TRUE ]
                  ELSE Only({ [ ok |-> r.ok, panic |-> FALSE,
                                chain |-> IF r.ok THEN [ c EXCEPT ![i] = refresh(@, r.s) ]
                                          ELSE c ]
                            : r \in { stack_grow_in_place(c[i].stack, ptr, old_size,
                                                          new_size) } })
                : i \in { chain_owner(c, ptr) } })
         : c \in { chain } })

---------------------------------------------------------------------------
(* bucketed.rs: the router.  A router state r is                           *)
(*   buckets  the six chains ( << >> is None )                             *)
(*   nblocks  blocks handed out so far; quota: blocks the MemorySource     *)
(*            still supplies during the current call                       *)
(*   calls    calls of get_block during the current call                   *)
(*   fatal    a panic has ended the process; debug: the build profile      *)

\* Sensitivity variant of ChooseArms: the very-large range without its upper end
\* at the block size
ChooseArms_unbounded ==
    << [ lo |-> 0,    hi |-> 0,      cat |-> "None" ],
       [ lo |-> 1,    hi |-> 7,      cat |-> "VerySmall" ],
       [ lo |-> 8,    hi |-> 63,     cat |-> "Small" ],
       [ lo |-> 64,   hi |-> 511,    cat |-> "Medium" ],
       [ lo |-> 512,  hi |-> 4095,   cat |-> "Large" ],
       [ lo |-> 4096, hi |-> 2 * BLOCK_SIZE, cat |-> "VeryLarge" ] >>

\* The range arms of the match in SizeCategory::choose, in source order; the
\* wildcard arm that follows them gives None.
ChooseArms ==
    << [ lo |-> 0,    hi |-> 0,      cat |-> "None" ],
       [ lo |-> 1,    hi |-> 7,      cat |-> "VerySmall" ],
       [ lo |-> 8,    hi |-> 63,     cat |-> "Small" ],
       [ lo |-> 64,   hi |-> 511,    cat |-> "Medium" ],
       [ lo |-> 512,  hi |-> 4095,   cat |-> "Large" ],
       [ lo |-> 4096, hi |-> 262144, cat |-> "VeryLarge" ] >>

\* the same match in factory_chain.rs: its Large arm starts at 511
FactoryChainArms == [ ChooseArms EXCEPT ![5].lo = 511 ]

\* the arms whose range holds the size
MatchingArms(arms, size) ==
    { i \in 1 .. Len(arms) : arms[i].lo <= size /\ size <= arms[i].hi }

\* a match takes the first arm that matches
MatchFirst(arms, size) ==
    IF MatchingArms(arms, size) = {} THEN "None"
    ELSE arms[CHOOSE i \in MatchingArms(arms, size) :
                \A j \in MatchingArms(arms, size) : i <= j].cat

\* SizeCategory::choose (bucketed.rs)
choose(size) == MatchFirst(ChooseArms, size)

Categories == { "VerySmall", "Small", "Medium", "Large", "VeryLarge" }

\* the Buckets field a category is served from (alloc_size / owner_of)
BucketOf(cat) ==
    CASE cat = "VerySmall" -> "very_small"
      [] cat = "Small"     -> "small"
      [] cat = "Medium"    -> "medium"
      [] cat = "Large"     -> "large"
      [] cat = "VeryLarge" -> "very_large"

Fields == { "very_small", "small", "medium", "metadata", "large", "very_large" }

\* Buckets::new
NewBuckets == [ f \in Fields |-> << >> ]

SetB(r, f, chain) == [ r EXCEPT !.buckets[f] = chain ]
Panic(r) == [ r EXCEPT !.fatal = TRUE ]

\* MemorySource::get_block: block k lies at k * BLOCK_SIZE (4 KiB aligned, non-null)
get_block(r) ==
    IF r.quota > 0
    THEN [ ok |-> TRUE, ptr |-> (r.nblocks + 1) * BLOCK_SIZE,
           r |-> [ r EXCEPT !.nblocks = @ + 1, !.quota = @ - 1, !.calls = @ + 1 ] ]
    ELSE [ ok |-> FALSE, ptr |-> 0, r |-> [ r EXCEPT !.calls = @ + 1 ] ]

\* the backup of the metadata node made by extend_very_large: bucketed.rs links the
\* metadata chain it takes (self.buckets.metadata.take()), factory_chain.rs links None
bootstrap_backup(r1) ==
    IF r1.file = "factory_chain" THEN << >> ELSE r1.buckets.metadata

\* the field extend_metadata stores the new very-large node in: bucketed.rs
\* self.buckets.very_large, factory_chain.rs self.large
more_metadata_field(r1) ==
    IF r1.file = "factory_chain" THEN "large" ELSE "very_large"

\* Sensitivity variant of metadata_bootstrap: the new metadata stack is built with
\* 1-byte chunks, so that it holds one header only
metadata_bootstrap_small_chunks(r1, new_alloc) ==
    Only({ IF ~ mm.ok THEN [ ok |-> FALSE, r |-> r1 ]
           ELSE Only({ IF ~ p1.ok
                       THEN [ ok |-> FALSE, r |-> Panic(SetB(r1, "metadata", << >>)) ]  \* unwrap
                       ELSE Only({ IF ~ p2.ok
                                   THEN [ ok |-> FALSE,
                                          r |-> Panic(SetB(r1, "metadata", << >>)) ]    \* unwrap
                                   ELSE [ ok |-> TRUE,
                                          r |-> SetB(SetB(r1, "metadata", p2.chain),
                                                     "very_large",
                                                     from_pointer_data(p2.ptr, mm.chain)) ]
                                 : p2 \in { chain_alloc(from_pointer_data(p1.ptr, p1.chain),
                                                        HEADER_SIZE, HEADER_ALIGN) } })
                     : p1 \in { chain_alloc(from_memory_chunk(VERY_SMALL_CHUNK_SIZE, mm.ptr,
                                                               bootstrap_backup(r1)),
                                            HEADER_SIZE, HEADER_ALIGN) } })
         : mm \in { chain_alloc(new_alloc, METADATA_CHUNK_SIZE * STACK_SIZE,
                                METADATA_CHUNK_SIZE) } })

\* Sensitivity variant of metadata_bootstrap: the header of the new metadata node
\* is stored in a chunk of the new block, not in the node's own stack
metadata_bootstrap_header_in_block(r1, new_alloc) ==
    Only({ IF ~ mm.ok THEN [ ok |-> FALSE, r |-> r1 ]
           ELSE Only({ IF ~ p1.ok
                       THEN [ ok |-> FALSE, r |-> Panic(SetB(r1, "metadata", << >>)) ]
                       ELSE Only({ IF ~ p2.ok
                                   THEN [ ok |-> FALSE,
                                          r |-> Panic(SetB(r1, "metadata", << >>)) ]
                                   ELSE [ ok |-> TRUE,
                                          r |-> SetB(SetB(r1, "metadata", p2.chain),
                                                     "very_large",
                                                     from_pointer_data(p2.ptr, p1.chain)) ]
                                 : p2 \in { chain_alloc(
                                              from_pointer_data(p1.ptr,
                                                 from_memory_chunk(METADATA_CHUNK_SIZE, mm.ptr,
                                                                   bootstrap_backup(r1))),
                                              HEADER_SIZE, HEADER_ALIGN) } })
                     : p1 \in { chain_alloc(mm.chain, HEADER_SIZE, HEADER_ALIGN) } })
         : mm \in { chain_alloc(new_alloc, METADATA_CHUNK_SIZE * STACK_SIZE,
                                METADATA_CHUNK_SIZE) } })

\* extend_very_large, when the metadata chain cannot hold the header: the new
\* block also gets a metadata stack, which stores its own header and the block's
metadata_bootstrap(r1, new_alloc) ==
    Only({ IF ~ mm.ok THEN [ ok |-> FALSE, r |-> r1 ]
           ELSE Only({ IF ~ p1.ok
                       THEN [ ok |-> FALSE, r |-> Panic(SetB(r1, "metadata", << >>)) ]  \* unwrap
                       ELSE Only({ IF ~ p2.ok
                                   THEN [ ok |-> FALSE,
                                          r |-> Panic(SetB(r1, "metadata", << >>)) ]    \* unwrap
                                   ELSE [ ok |-> TRUE,
                                          r |-> SetB(SetB(r1, "metadata", p2.chain),
                                                     "very_large",
                                                     from_pointer_data(p2.ptr, mm.chain)) ]
                                 : p2 \in { chain_alloc(from_pointer_data(p1.ptr, p1.chain),
                                                        HEADER_SIZE, HEADER_ALIGN) } })
                     : p1 \in { chain_alloc(from_memory_chunk(METADATA_CHUNK_SIZE, mm.ptr,
                                                               bootstrap_backup(r1)),
                                            HEADER_SIZE, HEADER_ALIGN) } })
         : mm \in { chain_alloc(new_alloc, METADATA_CHUNK_SIZE * STACK_SIZE,
                                METADATA_CHUNK_SIZE) } })

\* extend_very_large: [ok, r]
extend_very_large(r) ==
    Only({ IF ~ g.ok THEN [ ok |-> FALSE, r |-> g.r ]
           ELSE Only({ IF ma.ok
                       THEN [ ok |-> TRUE,
                              r |-> SetB(SetB(r1, "metadata", ma.chain),
                                         "very_large", from_pointer_data(ma.ptr, new_alloc)) ]
                       ELSE metadata_bootstrap(r1, new_alloc)
                     : r1 \in { SetB(g.r, "very_large", << >>) },       \* very_large.take()
                       new_alloc \in { from_memory_chunk(VERY_LARGE_CHUNK_SIZE, g.ptr,
                                                         r.buckets.very_large) },
                       ma \in { IF r.buckets.metadata = << >>
                                THEN [ ok |-> FALSE, ptr |-> 0, chain |-> << >> ]
                                ELSE chain_alloc(r.buckets.metadata,
                                                 HEADER_SIZE, HEADER_ALIGN) } })
         : g \in { get_block(r) } })

\* alloc_<category>, defined below with the extend functions it calls
RECURSIVE alloc_in(_, _, _, _)

alloc_very_large(r, size, align) == alloc_in(r, "very_large", size, align)

\* alloc_very_large_no_metadata: [ok, ptr, more, r]; more is the unsaved new chain
alloc_very_large_no_metadata(r, size, align) ==
    Only({
      IF a.ok
      THEN [ ok |-> TRUE, ptr |-> a.ptr, more |-> << >>, r |-> SetB(r, "very_large", a.chain) ]
      ELSE Only({
        IF ~ g.ok THEN [ ok |-> FALSE, ptr |-> 0, more |-> << >>, r |-> g.r ]
        ELSE Only({
          IF b.ok
          THEN [ ok |-> TRUE, ptr |-> b.ptr, more |-> b.chain,
                 r |-> SetB(g.r, "very_large", << >>) ]             \* very_large.take()
          ELSE [ ok |-> FALSE, ptr |-> 0, more |-> << >>,
                 r |-> SetB(g.r, "very_large", << >>) ]
          : b \in { chain_alloc(from_memory_chunk(VERY_LARGE_CHUNK_SIZE, g.ptr,
                                                  r.buckets.very_large), size, align) } })
        : g \in { get_block(r) } })
      : a \in { IF r.buckets.very_large = << >>
                THEN [ ok |-> FALSE, ptr |-> 0, chain |-> << >> ]
                ELSE chain_alloc(r.buckets.very_large, size, align) } })

\* extend_metadata, once the very-large chain gave the stack (v): [ok, r]
install_metadata(v, r1, metadata_alloc) ==
    Only({
      IF v.more # << >> /\ ~ a1.ok THEN [ ok |-> FALSE, r |-> r1 ]
      ELSE Only({
        IF ~ a2.ok THEN [ ok |-> FALSE, r |-> r2 ]
        ELSE [ ok |-> TRUE, r |-> SetB(r2, "metadata", from_pointer_data(a2.ptr, a2.chain)) ]
        : r2 \in { IF v.more = << >> THEN r1
                   ELSE SetB(r1, more_metadata_field(r1),
                             from_pointer_data(a1.ptr, v.more)) },
          a2 \in { chain_alloc(IF v.more = << >> THEN metadata_alloc ELSE a1.chain,
                               HEADER_SIZE, HEADER_ALIGN) } })
      : a1 \in { IF v.more = << >> THEN [ ok |-> TRUE, ptr |-> 0, chain |-> metadata_alloc ]
                 ELSE chain_alloc(metadata_alloc, HEADER_SIZE, HEADER_ALIGN) } })

\* extend_metadata: [ok, r]
extend_metadata(r) ==
    Only({ IF ~ v.ok THEN [ ok |-> FALSE, r |-> v.r ]
           ELSE Only({ install_metadata(v, r1, metadata_alloc)
                     : r1 \in { SetB(v.r, "metadata", << >>) },         \* metadata.take()
                       metadata_alloc \in { from_memory_chunk(METADATA_CHUNK_SIZE, v.ptr,
                                                              v.r.buckets.metadata) } })
         : v \in { alloc_very_large_no_metadata(r, METADATA_CHUNK_SIZE * STACK_SIZE,
                                                METADATA_CHUNK_SIZE) } })

alloc_metadata(r, size, align) == alloc_in(r, "metadata", size, align)

\* Sensitivity variant of store_metadata: the metadata chain is extended before
\* every header is stored, whether or not it could hold the header
store_metadata_always_extends(r, chain) ==
    Only({ IF ~ e.ok THEN [ ok |-> FALSE, box |-> chain, r |-> e.r ]
           ELSE Only({ [ ok |-> a.ok, box |-> from_pointer_data(a.ptr, chain),
                         r |-> SetB(e.r, "metadata", a.chain) ]
                     : a \in { chain_alloc(e.r.buckets.metadata, HEADER_SIZE, HEADER_ALIGN) } })
         : e \in { extend_metadata(r) } })

\* store_metadata: [ok, box, r]
store_metadata(r, chain) ==
    Only({ [ ok |-> a.ok, box |-> from_pointer_data(a.ptr, chain), r |-> a.r ]
         : a \in { alloc_metadata(r, HEADER_SIZE, HEADER_ALIGN) } })

\* Sensitivity variant of extend_from: the memory of the new stack is taken from
\* the very-large chain whatever the parent of the category is
extend_from_very_large(r, f, chunk_size, parent) ==
    Only({ IF ~ m.ok THEN [ ok |-> FALSE, r |-> m.r ]
           ELSE Only({ IF ~ st.ok THEN [ ok |-> FALSE, r |-> st.r ]
                       ELSE [ ok |-> TRUE, r |-> SetB(st.r, f, st.box) ]
                     : st \in { Only({ store_metadata(taken, new_alloc)
                                     : taken \in { SetB(m.r, f, << >>) },
                                       new_alloc \in { from_memory_chunk(chunk_size, m.ptr,
                                                                         m.r.buckets[f]) } }) } })
         : m \in { alloc_in(r, "very_large", chunk_size * STACK_SIZE, chunk_size) } })

\* extend_very_small / extend_small / extend_medium / extend_large share one shape:
\* memory from the parent, take the old head, build the node, store its header.
extend_from(r, f, chunk_size, parent) ==
    Only({ IF ~ m.ok THEN [ ok |-> FALSE, r |-> m.r ]
           ELSE Only({ IF ~ st.ok THEN [ ok |-> FALSE, r |-> st.r ]
                       ELSE [ ok |-> TRUE, r |-> SetB(st.r, f, st.box) ]
                     : st \in { Only({ store_metadata(taken, new_alloc)
                                     : taken \in { SetB(m.r, f, << >>) },
                                       new_alloc \in { from_memory_chunk(chunk_size, m.ptr,
                                                                         m.r.buckets[f]) } }) } })
         : m \in { alloc_in(r, parent, chunk_size * STACK_SIZE, chunk_size) } })

extend_large(r) == extend_from(r, "large", LARGE_CHUNK_SIZE, "very_large")
extend_medium(r) == extend_from(r, "medium", MEDIUM_CHUNK_SIZE, "very_large")
extend_small(r) == extend_from(r, "small", SMALL_CHUNK_SIZE, "large")
extend_very_small(r) == extend_from(r, "very_small", VERY_SMALL_CHUNK_SIZE, "medium")

\* the extend function of a bucket
extend(r, f) ==
    CASE f = "very_small" -> extend_very_small(r)
      [] f = "small"      -> extend_small(r)
      [] f = "medium"     -> extend_medium(r)
      [] f = "metadata"   -> extend_metadata(r)
      [] f = "large"      -> extend_large(r)
      [] f = "very_large" -> extend_very_large(r)

\* get_X()?.alloc(layout), and on failure extend_X()?.alloc(layout): [ok, ptr, r]
alloc_in(r, f, size, align) ==
    Only({ IF ~ g.ok THEN [ ok |-> FALSE, ptr |-> 0, r |-> g.r ]
           ELSE Only({
             IF a.ok THEN [ ok |-> TRUE, ptr |-> a.ptr, r |-> SetB(g.r, f, a.chain) ]
             ELSE Only({
               IF ~ e.ok THEN [ ok |-> FALSE, ptr |-> 0, r |-> e.r ]
               ELSE Only({ [ ok |-> b.ok, ptr |-> b.ptr, r |-> SetB(e.r, f, b.chain) ]
                         : b \in { chain_alloc(e.r.buckets[f], size, align) } })
               : e \in { extend(g.r, f) } })
             : a \in { chain_alloc(g.r.buckets[f], size, align) } })
         : g \in { IF r.buckets[f] = << >> THEN extend(r, f) ELSE [ ok |-> TRUE, r |-> r ] } })

alloc_large(r, size, align) == alloc_in(r, "large", size, align)
alloc_medium(r, size, align) == alloc_in(r, "medium", size, align)
alloc_small(r, size, align) == alloc_in(r, "small", size, align)
alloc_very_small(r, size, align) == alloc_in(r, "very_small", size, align)

\* Sensitivity variant of alloc_size: small requests go to the medium chain
alloc_size_small_as_medium(r, size, align, size_category) ==
    CASE size_category = "VerySmall" -> alloc_very_small(r, size, align)
      [] size_category = "Small"     -> alloc_medium(r, size, align)
      [] size_category = "Medium"    -> alloc_medium(r, size, align)
      [] size_category = "Large"     -> alloc_large(r, size, align)
      [] size_category = "VeryLarge" -> alloc_very_large(r, size, align)

alloc_size(r, size, align, size_category) ==
    CASE size_category = "VerySmall" -> alloc_very_small(r, size, align)
      [] size_category = "Small"     -> alloc_small(r, size, align)
      [] size_category = "Medium"    -> alloc_medium(r, size, align)
      [] size_category = "Large"     -> alloc_large(r, size, align)
      [] size_category = "VeryLarge" -> alloc_very_large(r, size, align)

\* BucketedAllocator::alloc: [ok, ptr, r]
router_alloc(r, size, align) ==
    IF choose(size) # "None"
    THEN alloc_size(r, size, align, choose(size))
    ELSE [ ok |-> FALSE, ptr |-> 0, r |-> r ]

\* owner_of(..).expect(..): the category has a chain (and, with debug assertions,
\* that chain owns the pointer)
owner_of_fails(r, ptr, size) ==
    \/ choose(size) = "None"
    \/ r.buckets[BucketOf(choose(size))] = << >>
    \/ r.debug /\ ~ chain_owns(r.buckets[BucketOf(choose(size))], ptr)

\* the end of dealloc after FreeAllocator(allocator), r2 being the state after the
\* stack of the node went back: the header goes back to the metadata chain
free_header(r2, allocator) ==
    IF r2.fatal THEN r2
    ELSE IF r2.buckets.metadata = << >> THEN Panic(r2)   \* unwrap
    ELSE Only({ IF md.panic THEN Panic(r2) ELSE SetB(r2, "metadata", md.chain)
              : md \in { chain_dealloc(r2.buckets.metadata, allocator.hdr, HEADER_SIZE) } })

\* Sensitivity variant of router_dealloc: no early return for size 0
RECURSIVE router_dealloc_without_size_check(_, _, _)
router_dealloc_without_size_check(r, ptr, size) ==
    IF owner_of_fails(r, ptr, size) THEN Panic(r)
    ELSE Only({
      IF d.panic THEN Panic(r)
      ELSE IF d.response # "FreeNode" THEN SetB(r, f, d.chain)
      ELSE Only({ free_header(r2, d.node[1])
                : r2 \in { Only({ router_dealloc_without_size_check(
                                      r1, d.node[1].stack.bottom,
                                      d.node[1].stack.chunk_size * STACK_SIZE)
                                : r1 \in { SetB(r, f, d.chain) } }) } })
      : f \in { BucketOf(choose(size)) },
        d \in { chain_dealloc(r.buckets[BucketOf(choose(size))], ptr, size) } })

\* BucketedAllocator::dealloc: the router state after the call
RECURSIVE router_dealloc(_, _, _)
router_dealloc(r, ptr, size) ==
    IF size = 0 THEN r
    ELSE IF owner_of_fails(r, ptr, size) THEN Panic(r)
    ELSE Only({
      IF d.panic THEN Panic(r)
      ELSE IF d.response # "FreeNode" THEN SetB(r, f, d.chain)
      ELSE Only({ free_header(r2, d.node[1])
                : r2 \in { Only({ router_dealloc(r1, d.node[1].stack.bottom,
                                                 d.node[1].stack.chunk_size * STACK_SIZE)
                                : r1 \in { SetB(r, f, d.chain) } }) } })
      : f \in { BucketOf(choose(size)) },
        d \in { chain_dealloc(r.buckets[BucketOf(choose(size))], ptr, size) } })

\* realloc within one category: shrink_in_place, else grow_in_place; moved is
\* "retry" when the growth has to go through alloc, copy, dealloc
realloc_in_place(r, ptr, size, new_size) ==
    IF new_size <= size
    THEN Only({ IF sh.panic
                THEN [ ok |-> FALSE, ptr |-> 0, r |-> Panic(r), moved |-> FALSE, retry |-> FALSE ]
                ELSE [ ok |-> TRUE, ptr |-> ptr, r |-> SetB(r, BucketOf(choose(size)), sh.chain),
                       moved |-> FALSE, retry |-> FALSE ]
              : sh \in { chain_shrink_in_place(r.buckets[BucketOf(choose(size))], ptr, size,
                                               new_size, r.debug) } })
    ELSE Only({ IF gr.panic
                THEN [ ok |-> FALSE, ptr |-> 0, r |-> Panic(r), moved |-> FALSE, retry |-> FALSE ]
                ELSE IF gr.ok
                THEN [ ok |-> TRUE, ptr |-> ptr, r |-> SetB(r, BucketOf(choose(size)), gr.chain),
                       moved |-> FALSE, retry |-> FALSE ]
                ELSE [ ok |-> FALSE, ptr |-> 0, r |-> r, moved |-> FALSE, retry |-> TRUE ]
              : gr \in { chain_grow_in_place(r.buckets[BucketOf(choose(size))], ptr, size,
                                             new_size) } })

\* realloc by alloc, copy_nonoverlapping, dealloc
realloc_by_copy(r, ptr, size, new_size, align) ==
    Only({ IF a.ok
           THEN Only({ [ ok |-> TRUE, ptr |-> a.ptr, r |-> after, moved |-> TRUE ]
                     : after \in { Only({ router_dealloc(ar, ptr, size) : ar \in { a.r } }) } })
           ELSE [ ok |-> FALSE, ptr |-> 0, r |-> a.r, moved |-> FALSE ]
         : a \in { router_alloc(r, new_size, align) } })

\* BucketedAllocator::realloc: [ok, ptr, r, moved]
router_realloc(r, ptr, size, new_size, align) ==
    IF choose(size) # choose(new_size) THEN realloc_by_copy(r, ptr, size, new_size, align)
    ELSE IF owner_of_fails(r, ptr, size)
    THEN [ ok |-> FALSE, ptr |-> 0, r |-> Panic(r), moved |-> FALSE ]
    ELSE Only({ IF p.retry THEN realloc_by_copy(r, ptr, size, new_size, align)
                ELSE [ ok |-> p.ok, ptr |-> p.ptr, r |-> p.r, moved |-> FALSE ]
              : p \in { realloc_in_place(r, ptr, size, new_size) } })

---------------------------------------------------------------------------
(* Bounds of the exploration *)

MaxLive == 2        \* live allocations of the caller
MaxOps == 5         \* router calls of one explored run
MaxBlocks == 3      \* blocks the MemorySource can supply in all
MaxSLive == 3       \* live allocations on the stand-alone stack
MaxN == 130         \* length of the scripted run of 8-byte allocations
MaxStackOps == 5    \* calls on the stand-alone stack in one run
MaxCycle == 3       \* allocations of one allocate-all / deallocate-all run
ScriptQuota == 4    \* blocks a provider that always supplies hands to one call
MaxChooseSize == 262150   \* sizes given to SizeCategory::choose: 0 .. MaxChooseSize
NThreads == 2       \* threads that call the entry points of the Allocator
MaxCalls == 2       \* calls of one thread in the run without a script
MaxDone == 5        \* entry points that return in one run of the threads

\* the (size, align) requests of the exploration: the sizes outside every category,
\* very-small requests (one with an alignment that fills a whole stack, one whose
\* alignment leaves padding chunks) and very-large requests of 1 and of 64 chunks
AllocLayouts ==
    { <<0, 1>>, <<1, 64>>, <<3, 4>>, <<4096, 8>>, <<262144, 4096>>, <<262145, 8>> }

ReallocSizes == { 1, 3, 4096, 262144 }

---------------------------------------------------------------------------
(* The caller's view *)

\* the scripted runs that are made on the FactoryChain of factory_chain.rs, the
\* router the Allocator of global_allocator.rs holds; every other run is made
\* on the BucketedAllocator of bucketed.rs
FactoryScriptNames == { "relink", "reborn" }

RouterFile == IF step.script \in FactoryScriptNames THEN "factory_chain" ELSE "bucketed"

Router(quota) ==
    [ buckets |-> buckets, nblocks |-> nblocks, quota |-> quota, calls |-> 0,
      fatal |-> fatal, debug |-> debug_assertions, file |-> RouterFile ]

Range(a) == a.ptr .. (a.ptr + a.size - 1)

FreshId ==
    CHOOSE i \in 1 .. (Cardinality(live) + 1) :
        /\ \A a \in live : a.id # i
        /\ \A j \in 1 .. (i - 1) : \E a \in live : a.id = j

\* memory restricted to the bytes of live allocations
Restrict(m, allocs) ==
    [ x \in { y \in DOMAIN m : \E a \in allocs : y \in Range(a) } |-> m[x] ]

\* the caller writes a pattern to the first and the last byte of a new allocation
WritePattern(m, a) ==
    [ x \in DOMAIN m \cup { a.ptr, a.ptr + a.size - 1 } |->
        IF x \in { a.ptr, a.ptr + a.size - 1 } THEN a.id ELSE m[x] ]

\* ptr::copy_nonoverlapping(src, dst, n): a byte the caller never wrote holds 0
Copy(m, src, dst, n) ==
    LET moved == { x \in DOMAIN m : src <= x /\ x < src + n }
        hit == { y \in DOMAIN m : dst <= y /\ y < dst + n }
    IN  [ y \in DOMAIN m \cup { dst + (x - src) : x \in moved } |->
            IF y \in hit \/ (\E x \in moved : y = dst + (x - src))
            THEN IF (src + (y - dst)) \in moved THEN m[src + (y - dst)] ELSE 0
            ELSE m[y] ]

\* the written bytes among the first n bytes at ptr, as offset -> value
Contents(m, ptr, n) ==
    [ o \in { x - ptr : x \in { y \in DOMAIN m : ptr <= y /\ y < ptr + n /\ m[y] # 0 } }
        |-> m[ptr + o] ]

NoCall == [ op |-> "none" ]

\* step: the script being run, the calls made, and for the scripted runs the
\* phase, the peak number of live allocations and the stacks of the first and
\* of the newest node of the small chain
NoScript == [ script |-> "none", n |-> 0, phase |-> "alloc", peak |-> 0,
              first |-> 0, newest |-> 0 ]

RouterFresh ==
    /\ buckets = NewBuckets
    /\ nblocks = 0
    /\ live = {}
    /\ mem = << >>
    /\ fatal = FALSE
    /\ last = NoCall

RouterInit == RouterFresh /\ step = NoScript

StackIdle == /\ stack = NewStack(1024, 8) /\ slive = {} /\ slast = NoCall
ChooseIdle == /\ csize = 0 /\ ccat = [ file |-> "none" ]

\* Allocator::new: the latch is free; no thread is inside an entry point
NoRequest == [ op |-> "none", slot |-> 0, size |-> 0, align |-> 1 ]
IdleThread == [ pc |-> "idle", spinning |-> FALSE, req |-> NoRequest, n |-> 0, mine |-> {} ]
LatchIdle == /\ lock = FALSE /\ threads = [ t \in 1 .. NThreads |-> IdleThread ]

Commit(r) ==
    /\ buckets' = r.buckets
    /\ nblocks' = r.nblocks
    /\ fatal' = r.fatal

\* Alloc::alloc on the router
DoAlloc(size, align, quota, id) ==
    \E res \in { router_alloc(Router(quota), size, align) } :
    LET a == [ ptr |-> res.ptr, size |-> size, align |-> align, id |-> id ]
    IN  /\ Commit(res.r)
        /\ live' = IF res.ok THEN live \cup { a } ELSE live
        /\ mem' = IF res.ok THEN WritePattern(mem, a) ELSE mem
        /\ last' = [ op |-> "alloc", size |-> size, align |-> align, ok |-> res.ok,
                     ptr |-> res.ptr, id |-> IF res.ok THEN a.id ELSE 0, calls |-> res.r.calls ]

Alloc ==
    /\ ~ fatal
    /\ step.n < MaxOps
    /\ step' = [ step EXCEPT !.n = @ + 1 ]
    /\ Cardinality(live) < MaxLive
    /\ \E l \in AllocLayouts, quota \in 0 .. (MaxBlocks - nblocks) : DoAlloc(l[1], l[2], quota, FreshId)
    /\ UNCHANGED << debug_assertions, stackVars, chooseVars, latchVars >>

\* Alloc::dealloc on the router, with the layout the allocation has
DoDealloc(a) ==
    \E r \in { router_dealloc(Router(0), a.ptr, a.size) } :
        /\ Commit(r)
        /\ live' = live \ { a }
        /\ mem' = Restrict(mem, live \ { a })
        /\ last' = [ op |-> "dealloc", size |-> a.size, align |-> a.align, ok |-> ~ r.fatal,
                     ptr |-> a.ptr, id |-> a.id, calls |-> r.calls ]

Dealloc ==
    /\ ~ fatal
    /\ step.n < MaxOps
    /\ step' = [ step EXCEPT !.n = @ + 1 ]
    /\ \E a \in live : DoDealloc(a)
    /\ UNCHANGED << debug_assertions, stackVars, chooseVars, latchVars >>

\* Alloc::realloc on the router, with the layout the allocation has
DoRealloc(a, new_size, quota) ==
    \E res \in { router_realloc(Router(quota), a.ptr, a.size, new_size, a.align) } :
    LET b == [ a EXCEPT !.ptr = res.ptr, !.size = new_size ]
        n == MinInt(a.size, new_size)
        live1 == IF res.ok THEN (live \ { a }) \cup { b } ELSE live
    IN  /\ Commit(res.r)
        /\ live' = live1
        /\ mem' = Restrict(IF res.moved THEN Copy(mem, a.ptr, res.ptr, n) ELSE mem, live1)
        /\ last' = [ op |-> "realloc", size |-> new_size, align |-> a.align, ok |-> res.ok,
                     ptr |-> res.ptr, id |-> a.id, calls |-> res.r.calls,
                     old_ptr |-> a.ptr, old_size |-> a.size, moved |-> res.moved,
                     old_contents |-> Contents(mem, a.ptr, n),
                     others |-> [ o \in live \ { a } |-> Contents(mem, o.ptr, o.size) ] ]

Realloc ==
    /\ ~ fatal
    /\ step.n < MaxOps
    /\ step' = [ step EXCEPT !.n = @ + 1 ]
    /\ \E a \in live, new_size \in ReallocSizes, quota \in 0 .. (MaxBlocks - nblocks) :
          DoRealloc(a, new_size, quota)
    /\ UNCHANGED << debug_assertions, stackVars, chooseVars, latchVars >>

Init ==
    /\ debug_assertions \in BOOLEAN
    /\ RouterInit
    /\ StackIdle
    /\ ChooseIdle
    /\ LatchIdle

Next == Alloc \/ Dealloc \/ Realloc

Spec == Init /\ [][Next]_vars

---------------------------------------------------------------------------
(* SizeCategory::choose as a pure function: both copies of the match *)

ArmsOf(file) == IF file = "bucketed.rs" THEN ChooseArms ELSE FactoryChainArms

ChooseInit ==
    /\ debug_assertions = FALSE
    /\ RouterInit
    /\ StackIdle
    /\ csize \in 0 .. MaxChooseSize
    /\ ccat = [ file |-> "none" ]
    /\ LatchIdle

Choose ==
    /\ ccat = [ file |-> "none" ]
    /\ \E file \in { "bucketed.rs", "factory_chain.rs" } :
          ccat' = [ file |-> file,
                    cat |-> MatchFirst(ArmsOf(file), csize),
                    arms |-> MatchingArms(ArmsOf(file), csize) ]
    /\ UNCHANGED << debug_assertions, routerVars, stackVars, csize, latchVars >>

ChooseSpec == ChooseInit /\ [][Choose]_vars

---------------------------------------------------------------------------
(* A stand-alone BitmappedStack driven directly, as the unit tests of      *)
(* main.rs drive it: alloc, dealloc, shrink_in_place, grow_in_place.       *)

\* (bottom address, chunk size) of the stacks tried
StackConfigs == { << 1024, 8 >>, << 1032, 8 >> }
StackSizes == { 1, 13, 28, 496, 512, 1024 }
StackAligns == { 1, 8, 128 }

SFreshId ==
    CHOOSE i \in 1 .. (Cardinality(slive) + 1) : \A a \in slive : a.id # i

StackInit ==
    /\ debug_assertions \in BOOLEAN
    /\ RouterInit
    /\ ChooseIdle
    /\ \E c \in StackConfigs : stack = NewStack(c[1], c[2])
    /\ slive = {}
    /\ slast = NoCall
    /\ LatchIdle

StackStep ==
    /\ ~ fatal
    /\ step.n < MaxStackOps
    /\ step' = [ step EXCEPT !.n = @ + 1 ]
    /\ UNCHANGED << debug_assertions, buckets, nblocks, live, mem, last, chooseVars, latchVars >>

SAlloc ==
    /\ StackStep
    /\ Cardinality(slive) < MaxSLive
    /\ \E size \in StackSizes, align \in StackAligns :
       \E res \in { stack_alloc(stack, size, align) } :
          /\ stack' = res.s
          /\ slive' = IF res.ok
                      THEN slive \cup { [ ptr |-> res.ptr, size |-> size, id |-> SFreshId ] }
                      ELSE slive
          /\ slast' = [ op |-> "alloc", ok |-> res.ok, ptr |-> res.ptr, size |-> size,
                        align |-> align, id |-> IF res.ok THEN SFreshId ELSE 0 ]
    /\ fatal' = FALSE

SDealloc ==
    /\ StackStep
    /\ \E a \in slive :
          /\ stack' = stack_dealloc(stack, a.ptr, a.size)
          /\ slive' = slive \ { a }
          /\ slast' = [ op |-> "dealloc", ok |-> TRUE, ptr |-> a.ptr, size |-> a.size,
                        align |-> 1, id |-> a.id ]
    /\ fatal' = FALSE

SShrink ==
    /\ StackStep
    /\ \E a \in slive, new_size \in StackSizes \cup { 0 } :
          /\ new_size <= a.size
          /\ fatal' = (debug_assertions /\ stack_shrink_overflows(stack, a.ptr, new_size))
          /\ stack' = IF fatal' THEN stack
                      ELSE stack_shrink_in_place(stack, a.ptr, a.size, new_size)
          /\ slive' = IF fatal' THEN slive
                      ELSE (slive \ { a }) \cup { [ a EXCEPT !.size = new_size ] }
          /\ slast' = [ op |-> "shrink", ok |-> ~ fatal', ptr |-> a.ptr, size |-> new_size,
                        align |-> 1, id |-> a.id ]

SGrow ==
    /\ StackStep
    /\ \E a \in slive, new_size \in StackSizes :
       \E res \in { stack_grow_in_place(stack, a.ptr, a.size, new_size) } :
          /\ new_size >= a.size
          /\ fatal' = (debug_assertions
                         /\ stack_grow_overflows(stack, a.ptr, a.size, new_size))
          /\ stack' = IF fatal' THEN stack ELSE res.s
          /\ slive' = IF res.ok /\ ~ fatal'
                      THEN (slive \ { a }) \cup { [ a EXCEPT !.size = new_size ] }
                      ELSE slive
          /\ slast' = [ op |-> "grow", ok |-> res.ok /\ ~ fatal', ptr |-> a.ptr,
                        size |-> new_size, align |-> 1, id |-> a.id ]

StackNext == SAlloc \/ SDealloc \/ SShrink \/ SGrow

StackSpec == StackInit /\ [][StackNext]_vars

---------------------------------------------------------------------------
(* Scripted runs on a fresh router with a provider that always supplies:   *)
(*   pair       main(): Vec::with_capacity(4096), then Vec::with_capacity(9)*)
(*   vecs       tests/test.rs vecs(): a Vec<i32> of 3 grown by 7 pushes     *)
(*   overwrite  a whole-block allocation shrunk in place, then reallocations*)
(*   twin       the same start, then medium allocations until the medium    *)
(*              chain extends                                               *)
(*   starve     a whole-stack very-small allocation, the rest of the first  *)
(*              block, then very-small allocations until the metadata stack *)
(*              holds 64 headers                                            *)
(*   orphan     whole-stack very-small and small allocations until the      *)
(*              metadata stack holds 64 headers, the first block being      *)
(*              full, then a reallocate that cannot grow in place while the *)
(*              provider refuses every block                                *)
(*   extend     the start of orphan, then a very-small allocation whose new *)
(*              node needs a header: extend_metadata runs and has to extend *)
(*              the very-large chain                                        *)
(*   rebirth    the start of orphan, then a very-large allocation:          *)
(*              extend_very_large finds no header chunk and makes a new     *)
(*              metadata node; then a very-small allocation in a node below *)
(*              the head is deallocated                                     *)
(*   zero       deallocations of size 0 on the fresh router, with live      *)
(*              allocations and after a deallocation                        *)
(*   lifo       N allocations of 8 bytes, deallocated in reverse order      *)
(*   cycle      allocations, then the deallocation of each in any order     *)

Al(slot, size, align) == [ op |-> "alloc", slot |-> slot, size |-> size, align |-> align ]
De(slot) == [ op |-> "dealloc", slot |-> slot, size |-> 0, align |-> 1 ]
Re(slot, new_size) == [ op |-> "realloc", slot |-> slot, size |-> new_size, align |-> 1 ]
Dz == [ op |-> "dealloc_zero", slot |-> 0, size |-> 0, align |-> 1 ]
Rs(slot, new_size) ==
    [ op |-> "realloc_starved", slot |-> slot, size |-> new_size, align |-> 1 ]

ScriptNames ==
    { "pair", "vecs", "overwrite", "twin", "starve", "orphan", "zero", "extend", "rebirth",
      "whole" }

\* whole-stack very-small and small allocations and the rest of the first block:
\* afterwards the metadata stack holds 64 headers and the first block is full
FullStart ==
    << Al(1, 1, 64), Al(2, 8, 512), Al(3, 54 * VERY_LARGE_CHUNK_SIZE, 4096) >>
    \o [ k \in 1 .. 29 |-> Al(3 + k, 1, 64) ]
    \o [ k \in 1 .. 29 |-> Al(32 + k, 8, 512) ]

Script(name) ==
    CASE name = "pair" -> << Al(1, 4096, 1), Al(2, 9, 1) >>
      [] name = "vecs" -> << Al(1, 12, 4), Re(1, 24), Re(1, 48) >>
      [] name = "overwrite" ->
            << Al(3, 1, 1), Al(1, 262144, 4096), Re(1, 4096), Al(2, 4096, 8), De(2),
               Re(3, 4096) >>
      [] name = "twin" ->
            << Al(1, 262144, 4096), Re(1, 4096), Al(2, 4096, 8), De(2),
               Al(3, 511, 1), De(1) >>
            \o [ k \in 1 .. 8 |-> Al(3 + k, 511, 1) ]
      [] name = "starve" ->
            << Al(1, 1, 64), Al(2, 62 * VERY_LARGE_CHUNK_SIZE, 4096) >>
            \o [ k \in 1 .. (STACK_SIZE - 4) |-> Al(2 + k, 1, 64) ]
      [] name = "orphan" -> FullStart \o << Al(62, 1, 1), Rs(32, 3) >>
      [] name = "extend" -> FullStart \o << Al(62, 1, 64) >>
      [] name = "rebirth" -> FullStart \o << Al(62, 4096, 4096), De(31) >>
      [] name = "whole" -> FullStart \o << Al(62, STACK_SIZE * VERY_LARGE_CHUNK_SIZE, 4096) >>
      [] name = "zero" ->
            << Dz, Al(1, 9, 1), Al(2, 4096, 8), Dz, De(1), Dz >>

CycleLayouts ==
    { <<1, 64>>, <<3, 4>>, <<9, 1>>, <<100, 4>>, <<600, 8>>, <<4096, 8>>, <<262144, 4096>> }

Slot(id) == CHOOSE a \in live : a.id = id

SmallBottom(chain, i) == IF chain = << >> THEN 0 ELSE chain[i].stack.bottom

ScenarioInit ==
    /\ debug_assertions \in BOOLEAN
    /\ RouterFresh
    /\ StackIdle
    /\ ChooseIdle
    /\ LatchIdle
    /\ \E name \in ScriptNames \cup { "lifo", "cycle" } :
          step = [ NoScript EXCEPT !.script = name ]

ScriptCommand == Script(step.script)[step.n + 1]

ScriptStep(op) ==
    /\ ~ fatal
    /\ step.script \in ScriptNames
    /\ step.n < Len(Script(step.script))
    /\ ScriptCommand.op = op
    /\ step' = [ step EXCEPT !.n = @ + 1 ]
    /\ UNCHANGED << debug_assertions, stackVars, chooseVars, latchVars >>

ScriptAlloc ==
    /\ ScriptStep("alloc")
    /\ DoAlloc(ScriptCommand.size, ScriptCommand.align, ScriptQuota, ScriptCommand.slot)

ScriptDealloc ==
    /\ ScriptStep("dealloc")
    /\ \E a \in live : a.id = ScriptCommand.slot /\ DoDealloc(a)

ScriptRealloc ==
    /\ ScriptStep("realloc")
    /\ \E a \in live : a.id = ScriptCommand.slot /\ DoRealloc(a, ScriptCommand.size, ScriptQuota)

\* Alloc::realloc while the provider refuses every block
ScriptStarvedRealloc ==
    /\ ScriptStep("realloc_starved")
    /\ \E a \in live : a.id = ScriptCommand.slot /\ DoRealloc(a, ScriptCommand.size, 0)

\* the pointers given to a deallocation of size 0: of live allocations, of no
\* allocation, and one that lies outside every block
ZeroSizePointers == { a.ptr : a \in live } \cup { 1, BLOCK_SIZE + 64 }

\* Alloc::dealloc on the router with a layout of size 0
DoDeallocZero(ptr) ==
    \E r \in { router_dealloc(Router(0), ptr, 0) } :
        /\ Commit(r)
        /\ UNCHANGED << live, mem >>
        /\ last' = [ op |-> "dealloc", size |-> 0, align |-> 1, ok |-> ~ r.fatal,
                     ptr |-> ptr, id |-> 0, calls |-> r.calls ]

ScriptDeallocZero ==
    /\ ScriptStep("dealloc_zero")
    /\ \E ptr \in ZeroSizePointers : DoDeallocZero(ptr)

LifoAlloc ==
    /\ ~ fatal
    /\ step.script = "lifo" /\ step.phase = "alloc" /\ step.n < MaxN
    /\ DoAlloc(8, 8, ScriptQuota, step.n + 1)
    /\ step' = [ step EXCEPT !.n = @ + 1, !.peak = @ + 1,
                             !.first = IF step.n = 0
                                       THEN SmallBottom(buckets'.small, Len(buckets'.small))
                                       ELSE @,
                             !.newest = SmallBottom(buckets'.small, 1) ]
    /\ UNCHANGED << debug_assertions, stackVars, chooseVars, latchVars >>

LifoDealloc ==
    /\ ~ fatal
    /\ step.script = "lifo" /\ step.n > 0
    /\ \E a \in live : a.id = step.n /\ DoDealloc(a)
    /\ step' = [ step EXCEPT !.n = @ - 1, !.phase = "free" ]
    /\ UNCHANGED << debug_assertions, stackVars, chooseVars, latchVars >>

CycleAlloc ==
    /\ ~ fatal
    /\ step.script = "cycle" /\ step.phase = "alloc" /\ step.n < MaxCycle
    /\ \E l \in CycleLayouts : DoAlloc(l[1], l[2], ScriptQuota, step.n + 1)
    /\ step' = [ step EXCEPT !.n = @ + 1, !.peak = @ + 1 ]
    /\ UNCHANGED << debug_assertions, stackVars, chooseVars, latchVars >>

CycleDealloc ==
    /\ ~ fatal
    /\ step.script = "cycle"
    /\ \E a \in live : DoDealloc(a)
    /\ step' = [ step EXCEPT !.n = @ - 1, !.phase = "free" ]
    /\ UNCHANGED << debug_assertions, stackVars, chooseVars, latchVars >>

ScenarioNext ==
    \/ ScriptAlloc \/ ScriptDealloc \/ ScriptRealloc \/ ScriptDeallocZero
    \/ ScriptStarvedRealloc
    \/ LifoAlloc \/ LifoDealloc
    \/ CycleAlloc \/ CycleDealloc

ScenarioSpec == ScenarioInit /\ [][ScenarioNext]_vars

---------------------------------------------------------------------------
(* Scripted runs on a fresh FactoryChain (factory_chain.rs) with a provider *)
(* that always supplies.  Both start as orphan does: the first block is    *)
(* full and the metadata stack holds 64 headers.                           *)
(*   relink   one more very-small allocation: its node needs a header, so  *)
(*            extend_metadata runs and has to extend the very-large chain  *)
(*   reborn   one more very-large allocation: extend_very_large finds no   *)
(*            header chunk and makes a new metadata node; then a very-small*)
(*            allocation in a node below the head is deallocated           *)

FactoryScript(name) ==
    CASE name = "relink" -> FullStart \o << Al(STACK_SIZE - 2, 1, 64) >>
      [] name = "reborn" -> FullStart \o << Al(STACK_SIZE - 2, 4096, 4096), De(31) >>

FactoryInit ==
    /\ debug_assertions \in BOOLEAN
    /\ RouterFresh
    /\ StackIdle
    /\ ChooseIdle
    /\ LatchIdle
    /\ \E name \in FactoryScriptNames : step = [ NoScript EXCEPT !.script = name ]

FactoryCommand == FactoryScript(step.script)[step.n + 1]

FactoryStep(op) ==
    /\ ~ fatal
    /\ step.script \in FactoryScriptNames
    /\ step.n < Len(FactoryScript(step.script))
    /\ FactoryCommand.op = op
    /\ step' = [ step EXCEPT !.n = @ + 1 ]
    /\ UNCHANGED << debug_assertions, stackVars, chooseVars, latchVars >>

FactoryAlloc ==
    /\ FactoryStep("alloc")
    /\ DoAlloc(FactoryCommand.size, FactoryCommand.align, ScriptQuota, FactoryCommand.slot)

FactoryDealloc ==
    /\ FactoryStep("dealloc")
    /\ \E a \in live : a.id = FactoryCommand.slot /\ DoDealloc(a)

FactoryNext == FactoryAlloc \/ FactoryDealloc

FactorySpec == FactoryInit /\ [][FactoryNext]_vars

---------------------------------------------------------------------------
(* global_allocator.rs: the Allocator guards its router (a FactoryChain,   *)
(* whose alloc / dealloc / realloc are the router calls above) with the    *)
(* AtomicBool lock.  A thread inside an entry point is at                  *)
(*   "get_alloc"  in the swap loop of get_alloc                            *)
(*   "locked"     it holds a Lock and is about to run the router call      *)
(*   "drop"       the router call returned, Lock::drop comes next          *)
(* and a panic leaves it at "aborted" (the process ended while it held the *)
(* Lock), at "unwound" (the panic unwound the thread and Lock::drop ran on *)
(* the way) or at "assert_failed" (the debug assertion of Lock::drop).     *)

Threads == 1 .. NThreads

\* to_raw: a null pointer stands for the error
to_raw(res) == IF res.ok THEN res.ptr ELSE 0

\* Sensitivity variant of latch_acquired: the loop of get_alloc never waits
latch_acquired_always(prev) == prev \in BOOLEAN

\* the loop of get_alloc ends once swap(true) returned false
latch_acquired(prev) == prev = FALSE

\* Sensitivity variant of takes_latch: every call goes on to the router
takes_latch_always(op, ptr, size) == op \in { "alloc", "dealloc", "realloc" }

\* the entry points that reach get_alloc: alloc returns null for size 0 and
\* dealloc returns for a null pointer before
takes_latch(op, ptr, size) ==
    CASE op = "alloc"   -> size # 0
      [] op = "dealloc" -> ptr # 0
      [] op = "realloc" -> TRUE

\* GlobalAlloc::alloc under the Lock: [ok, ptr, r]
global_alloc(r, size, align) == router_alloc(r, size, align)

\* GlobalAlloc::dealloc under the Lock: [ok, ptr, r]
global_dealloc(r, ptr, size) ==
    Only({ [ ok |-> ~ d.fatal, ptr |-> 0, r |-> d ] : d \in { router_dealloc(r, ptr, size) } })

\* Sensitivity variant of global_realloc: a null pointer is refused
global_realloc_refusing_null(r, ptr, size, new_size, align) ==
    IF ptr # 0
    THEN Only({ [ ok |-> x.ok, ptr |-> x.ptr, r |-> x.r ]
              : x \in { router_realloc(r, ptr, size, new_size, align) } })
    ELSE [ ok |-> FALSE, ptr |-> 0, r |-> r ]

\* GlobalAlloc::realloc under the Lock: [ok, ptr, r]
global_realloc(r, ptr, size, new_size, align) ==
    IF ptr # 0
    THEN Only({ [ ok |-> x.ok, ptr |-> x.ptr, r |-> x.r ]
              : x \in { router_realloc(r, ptr, size, new_size, align) } })
    ELSE router_alloc(r, new_size, align)

\* requests with a null pointer
DeNull(size) == [ op |-> "dealloc", slot |-> 0, size |-> size, align |-> 1 ]
ReNull(new_size, align) == [ op |-> "realloc", slot |-> 0, size |-> new_size, align |-> align ]

\* The workloads of the threads:
\*   free      every thread makes up to MaxCalls calls of its own choice
\*   overlap   one thread shrinks a whole-block allocation in place while the
\*             other allocates and deallocates
\*   collapse  two threads allocate a whole block each, one deallocates its own
LatchWorkloads == { "free", "overlap", "collapse" }

LatchScript(name, t) ==
    CASE name = "overlap" /\ t = 1 -> << Al(1, 262144, 4096), Re(1, 4096) >>
      [] name = "overlap" /\ t = 2 -> << Al(2, 4096, 8), De(2), Al(3, 1, 64) >>
      [] name = "collapse" /\ t = 1 -> << Al(1, 262144, 4096), De(1) >>
      [] name = "collapse" /\ t = 2 -> << Al(2, 262144, 4096), Al(3, 3, 4) >>
      [] OTHER -> << >>

LatchLayouts == { <<0, 1>>, <<3, 4>>, <<262144, 4096>> }
LatchReallocSizes == { 4096 }
LatchNullReallocs == { <<3, 4>>, <<262145, 8>> }

\* what a thread may call next: its own choice or the next command of its script;
\* a thread deallocates and reallocates only allocations it holds
FreeRequests(t) ==
    { Al(0, l[1], l[2]) : l \in LatchLayouts }
      \cup { De(id) : id \in threads[t].mine }
      \cup { Re(id, s) : id \in threads[t].mine, s \in LatchReallocSizes }
      \cup { DeNull(8) }
      \cup { ReNull(l[1], l[2]) : l \in LatchNullReallocs }

Requests(t) ==
    IF step.script = "free"
    THEN IF threads[t].n < MaxCalls THEN FreeRequests(t) ELSE {}
    ELSE IF threads[t].n < Len(LatchScript(step.script, t))
         THEN { c \in { LatchScript(step.script, t)[threads[t].n + 1] } :
                  c.op = "alloc" \/ c.slot \in threads[t].mine }
         ELSE {}

\* the allocation a request is about; a null pointer when it names none
Target(req) ==
    IF req.op = "alloc" \/ req.slot = 0
    THEN [ ptr |-> 0, size |-> req.size, align |-> req.align, id |-> 0 ]
    ELSE Slot(req.slot)

LatchInit ==
    /\ debug_assertions \in BOOLEAN
    /\ RouterFresh
    /\ StackIdle
    /\ ChooseIdle
    /\ LatchIdle
    /\ \E name \in LatchWorkloads : step = [ NoScript EXCEPT !.script = name ]

\* a thread enters alloc, dealloc or realloc: up to the call of get_alloc, or to
\* the return when the entry point does not go that far
Call(t) ==
    /\ ~ fatal
    /\ threads[t].pc = "idle"
    /\ \E req \in Requests(t) :
          IF takes_latch(req.op, Target(req).ptr, req.size)
          THEN /\ threads' = [ threads EXCEPT ![t] =
                                 [ @ EXCEPT !.pc = "get_alloc", !.spinning = FALSE, !.req = req ] ]
               /\ UNCHANGED << lock, routerVars >>
          ELSE /\ threads' = [ threads EXCEPT ![t] = [ @ EXCEPT !.req = req, !.n = @ + 1 ] ]
               /\ step' = [ step EXCEPT !.n = @ + 1 ]
               /\ last' = [ op |-> req.op, thread |-> t, ok |-> FALSE, ptr |-> 0,
                            size |-> req.size, old_ptr |-> 0, calls |-> 0, latched |-> FALSE ]
               /\ UNCHANGED << lock, buckets, nblocks, live, mem, fatal >>
    /\ UNCHANGED << debug_assertions, stackVars, chooseVars >>

\* one round of the loop of get_alloc: lock.swap(true)
GetAlloc(t) ==
    /\ ~ fatal
    /\ threads[t].pc = "get_alloc"
    /\ lock' = TRUE
    /\ threads' = [ threads EXCEPT ![t] =
                      IF latch_acquired(lock)
                      THEN [ @ EXCEPT !.pc = "locked" ]
                      ELSE [ @ EXCEPT !.spinning = TRUE ] ]
    /\ UNCHANGED << debug_assertions, routerVars, stackVars, chooseVars >>

\* the router call made through the Lock
RunLocked(t) ==
    /\ ~ fatal
    /\ threads[t].pc = "locked"
    /\ \E req \in { threads[t].req }, r \in { Router(ScriptQuota) } :
       \E a \in { Target(req) } :
       \E res \in { CASE req.op = "alloc" -> global_alloc(r, req.size, req.align)
                      [] req.op = "dealloc" -> global_dealloc(r, a.ptr, a.size)
                      [] req.op = "realloc" ->
                            global_realloc(r, a.ptr, a.size, req.size, a.align) },
          id \in { IF req.op = "alloc" /\ req.slot # 0 THEN req.slot
                   ELSE IF a.id # 0 THEN a.id ELSE FreshId } :
          /\ buckets' = res.r.buckets
          /\ nblocks' = res.r.nblocks
          /\ last' = [ op |-> req.op, thread |-> t, ok |-> res.ok, ptr |-> to_raw(res),
                       size |-> req.size, old_ptr |-> a.ptr, calls |-> res.r.calls,
                       latched |-> TRUE ]
          /\ IF res.r.fatal
             THEN \* a panic inside the router: the process aborts, or the thread
                  \* unwinds out of the entry point and drops its Lock
                  /\ live' = live \ { a }
                  /\ \E outcome \in { "aborted", "unwound" } :
                        /\ fatal' = (outcome = "aborted")
                        /\ lock' = IF outcome = "aborted" THEN lock ELSE FALSE
                        /\ threads' = [ threads EXCEPT ![t] =
                                          [ @ EXCEPT !.pc = outcome, !.mine = @ \ { a.id } ] ]
             ELSE /\ fatal' = FALSE
                  /\ lock' = lock
                  /\ live' = IF req.op = "dealloc" THEN live \ { a }
                             ELSE IF ~ res.ok THEN live
                             ELSE (live \ { a }) \cup
                                  { [ ptr |-> res.ptr, size |-> req.size,
                                      align |-> a.align, id |-> id ] }
                  /\ threads' = [ threads EXCEPT ![t] =
                                    [ @ EXCEPT !.pc = "drop",
                                               !.mine = IF req.op = "dealloc" THEN @ \ { a.id }
                                                        ELSE IF res.ok THEN @ \cup { id }
                                                        ELSE @ ] ]
    /\ UNCHANGED << debug_assertions, mem, step, stackVars, chooseVars >>

\* Lock::drop: lock.swap(false) and the debug assertion on the previous value;
\* the entry point returns
LockDrop(t) ==
    /\ ~ fatal
    /\ threads[t].pc = "drop"
    /\ lock' = FALSE
    /\ fatal' = (debug_assertions /\ lock # TRUE)
    /\ threads' = [ threads EXCEPT ![t] =
                      IF fatal' THEN [ @ EXCEPT !.pc = "assert_failed" ]
                      ELSE [ @ EXCEPT !.pc = "idle", !.n = @ + 1 ] ]
    /\ step' = IF fatal' THEN step ELSE [ step EXCEPT !.n = @ + 1 ]
    /\ UNCHANGED << debug_assertions, buckets, nblocks, live, mem, last, stackVars, chooseVars >>

Calls == \E t \in Threads : Call(t)
GetAllocs == \E t \in Threads : GetAlloc(t)
RunsLocked == \E t \in Threads : RunLocked(t)
LockDrops == \E t \in Threads : LockDrop(t)

LatchNext == Calls \/ GetAllocs \/ RunsLocked \/ LockDrops

LatchSpec == LatchInit /\ [][LatchNext]_vars

\* the steps of a thread inside an entry point
InsideEntryPoint(t) == GetAlloc(t) \/ RunLocked(t) \/ LockDrop(t)

\* the scripted workloads only
ScriptedLatchInit == LatchInit /\ step.script # "free"

\* fair scheduling: a thread that can go on inside an entry point does
FairLatchSpec ==
    /\ ScriptedLatchInit
    /\ [][LatchNext]_vars
    /\ \A t \in Threads : WF_vars(InsideEntryPoint(t))

---------------------------------------------------------------------------
(* Properties *)

Disjoint(p, n, q, m) == p + n <= q \/ q + m <= p

\* the chunks an allocation of the stand-alone stack covers
ChunksOf(s, a) ==
    ptr_to_chunk(s, a.ptr) .. (ptr_to_chunk(s, a.ptr) + chunks_for(s, a.size) - 1)

\* C1: the byte range an allocate returns is disjoint from the range of every
\* allocation that is live at that moment.
C1_AllocatedRangeIsDisjoint ==
    (last.op = "alloc" /\ last.ok) =>
        \A a \in live : a.id # last.id => Disjoint(a.ptr, a.size, last.ptr, last.size)

\* C2: every chunk of every live allocation of a chunk stack has its bitmap bit
\* set, for allocations of 1 up to all 64 chunks.
C2_LiveChunksAreMarked ==
    \A a \in slive : \A c \in ChunksOf(stack, a) : c \in stack.bitmap

\* the documented category table: the sizes of a category start at its chunk size
\* and end below the next chunk size (the last one ends at the block size)
TableCategory(size) ==
    IF size < VERY_SMALL_CHUNK_SIZE \/ size > BLOCK_SIZE THEN "None"
    ELSE IF size < SMALL_CHUNK_SIZE THEN "VerySmall"
    ELSE IF size < MEDIUM_CHUNK_SIZE THEN "Small"
    ELSE IF size < LARGE_CHUNK_SIZE THEN "Medium"
    ELSE IF size < VERY_LARGE_CHUNK_SIZE THEN "Large"
    ELSE "VeryLarge"

\* C4: SizeCategory::choose gives every size the category of the table, the range
\* of exactly one category matches a size in 1..=262144, and no range of a
\* category matches size 0 or a size above 262144.
C4_ChooseIsPartition ==
    ccat.file # "none" =>
        /\ ccat.cat = TableCategory(csize)
        /\ Cardinality({ i \in ccat.arms : ArmsOf(ccat.file)[i].cat \in Categories })
             = IF TableCategory(csize) = "None" THEN 0 ELSE 1

\* C6: allocate with size 0 or a size above 262144 fails, calls the provider not
\* once and leaves every chain (heads, bitmaps, heights) as it was.
C6_RejectedSizeTouchesNothing ==
    [][ (step'.n # step.n /\ last'.op = "alloc"
            /\ (last'.size = 0 \/ last'.size > BLOCK_SIZE))
        => (~ last'.ok /\ last'.calls = 0 /\ buckets' = buckets /\ nblocks' = nblocks
              /\ ~ fatal') ]_vars

\* a rejected size arrives when chains exist and allocations are live
C6_Witness ==
    /\ last.op = "alloc" /\ last.size > BLOCK_SIZE /\ ~ last.ok
    /\ buckets.very_small # << >>
    /\ live # {}

\* C8: after a successful reallocate the first min(old_size, new_size) bytes at the
\* returned pointer are the bytes the old allocation held, and the bytes of every
\* other live allocation are what they were before the call.
C8_ReallocPreservesContents ==
    (last.op = "realloc" /\ last.ok) =>
        /\ Contents(mem, last.ptr, MinInt(last.old_size, last.size)) = last.old_contents
        /\ \A b \in DOMAIN last.others :
              b \in live /\ Contents(mem, b.ptr, b.size) = last.others[b]

\* the byte range [ptr, ptr + size) lies inside the stack s
InStack(s, ptr, size) ==
    /\ s.bottom <= ptr
    /\ ptr + size <= s.bottom + STACK_SIZE * s.chunk_size

\* the nodes of the chain of the category of size whose stack holds the range
NodesHolding(ptr, size) ==
    { i \in 1 .. Len(buckets[BucketOf(choose(size))]) :
        InStack(buckets[BucketOf(choose(size))][i].stack, ptr, size) }

\* C3: a successful allocate returns a pointer that is a multiple of align and a
\* range that lies inside the stack of exactly one node.
C3_AlignedInsideOneStack ==
    (last.op = "alloc" /\ last.ok) =>
        /\ last.ptr % last.align = 0
        /\ Cardinality(NodesHolding(last.ptr, last.size)) = 1

ChunkSizeOf(cat) ==
    CASE cat = "VerySmall" -> VERY_SMALL_CHUNK_SIZE
      [] cat = "Small"     -> SMALL_CHUNK_SIZE
      [] cat = "Medium"    -> MEDIUM_CHUNK_SIZE
      [] cat = "Large"     -> LARGE_CHUNK_SIZE
      [] cat = "VeryLarge" -> VERY_LARGE_CHUNK_SIZE

\* the range lies in the stack of a node of the chain named cat, with its chunk size
ServedBy(cat, ptr, size) ==
    \E i \in 1 .. Len(buckets[BucketOf(cat)]) :
        /\ InStack(buckets[BucketOf(cat)][i].stack, ptr, size)
        /\ buckets[BucketOf(cat)][i].stack.chunk_size = ChunkSizeOf(cat)

AllDeallocated ==
    /\ step.script \in { "cycle", "lifo" }
    /\ step.phase = "free"
    /\ live = {}
    /\ ~ fatal

\* the chain a chain takes the memory of its stacks from (extend_*)
ParentOf(f) ==
    CASE f = "very_small" -> "medium"
      [] f = "small"      -> "large"
      [] f = "medium"     -> "very_large"
      [] f = "large"      -> "very_large"
      [] f = "metadata"   -> "very_large"
      [] f = "very_large" -> "provider"

NodesOf(f) == { buckets[f][i] : i \in 1 .. Len(buckets[f]) }

\* what the router itself keeps allocated in the chain f: the stacks of the nodes
\* of its child chains and, in the metadata chain, the headers of all nodes
RouterAllocations(f) ==
    { [ ptr |-> n.stack.bottom, size |-> n.stack.chunk_size * STACK_SIZE ] :
        n \in UNION { NodesOf(g) : g \in { h \in Fields : ParentOf(h) = f } } }
    \cup
    IF f = "metadata"
    THEN { [ ptr |-> n.hdr, size |-> HEADER_SIZE ] : n \in UNION { NodesOf(g) : g \in Fields } }
    ELSE {}

RouterChunks(f, node) ==
    UNION { ChunksOf(node.stack, x) :
              x \in { y \in RouterAllocations(f) : InStack(node.stack, y.ptr, y.size) } }

EmptiedNode(ptr, size) ==
    chain_owner(buckets[BucketOf(choose(size))], ptr)

EmptiesNonHead(ptr, size) ==
    /\ choose(size) # "None"
    /\ EmptiedNode(ptr, size) > 1
    /\ is_empty(stack_dealloc(buckets[BucketOf(choose(size))][EmptiedNode(ptr, size)].stack,
                              ptr, size))

\* C9: a router deallocate that empties the stack of a node below the head of its
\* chain returns with that chain one node shorter, the emptied node being the one
\* that is gone.
C9_EmptiedNodeLeavesChain ==
    [][ (last'.op = "dealloc" /\ step'.n # step.n /\ EmptiesNonHead(last'.ptr, last'.size))
        => /\ ~ fatal'
           /\ buckets'[BucketOf(choose(last'.size))]
                = RemoveAt(buckets[BucketOf(choose(last'.size))],
                           EmptiedNode(last'.ptr, last'.size)) ]_vars

\* the reverse-order run is over
LifoDone ==
    /\ step.script = "lifo" /\ step.phase = "free" /\ step.n = 0
    /\ ~ fatal

\* C10 as stated: after N 8-byte allocations deallocated in reverse order the small
\* chain has length 1, its node is the first node created, and it is empty.
C10_LifoLeavesOriginalNode ==
    LifoDone =>
        /\ Len(buckets.small) = 1
        /\ buckets.small[1].stack.bottom = step.first
        /\ is_empty(buckets.small[1].stack)

\* C10 amended: after N 8-byte allocations deallocated in reverse order the small
\* chain has length 1 and its node is empty; the node that remains is the head,
\* the node created last, which is the first node only when N <= 64.
C10_LifoLeavesNewestNode ==
    LifoDone =>
        /\ Len(buckets.small) = 1
        /\ is_empty(buckets.small[1].stack)
        /\ buckets.small[1].stack.bitmap = {}
        /\ buckets.small[1].stack.bottom = step.newest
        /\ (step.newest = step.first) <=> (step.peak <= STACK_SIZE)

\* a run whose chain had grown to three nodes
C10_Witness ==
    /\ LifoDone
    /\ step.peak > 2 * STACK_SIZE

\* the threads that hold a Lock
Holders == { t \in Threads : threads[t].pc \in { "locked", "drop", "aborted" } }

\* C11: at most one thread at a time holds the latch and runs router code; the
\* flag is true exactly while some thread holds a Lock, so the debug assertion
\* of Lock::drop never fails and the latch is free whenever no thread is inside
\* an entry point.
C11_LatchIsExclusive ==
    /\ Cardinality(Holders) <= 1
    /\ lock = (Holders # {})
    /\ \A t \in Threads : threads[t].pc # "assert_failed"
    /\ (\A t \in Threads : threads[t].pc \in { "idle", "unwound" }) => lock = FALSE

\* a thread has run its router call and still holds the Lock while another one,
\* having found the flag set, spins in get_alloc
C11_Witness ==
    \E t \in Threads, u \in Threads :
        /\ t # u
        /\ threads[t].pc = "drop"
        /\ threads[u].pc = "get_alloc" /\ threads[u].spinning
        /\ lock = TRUE

\* C12: in every interleaving, two allocations live at the same time that
\* distinct threads obtained through the entry points have disjoint byte ranges.
C12_ConcurrentRangesDisjoint ==
    \A t \in Threads, u \in Threads :
        \A a \in live, b \in live :
            (t # u /\ a.id \in threads[t].mine /\ b.id \in threads[u].mine)
                => Disjoint(a.ptr, a.size, b.ptr, b.size)

\* a thread busy-waits on the latch
Spinning(t) == threads[t].pc = "get_alloc" /\ threads[t].spinning

\* C13: under fair scheduling, whenever some thread spins on the latch an
\* operation completes later on (step.n counts the entry points that returned):
\* every critical section ends and releases the latch.
C13_SpinningLeadsToCompletion ==
    \A k \in 0 .. MaxDone :
        ((\E t \in Threads : Spinning(t)) /\ step.n = k) ~> (step.n > k)


\* a step in which the backing provider's get_block is called: the router's
\* call counter of the operation is positive, or a block was handed out
CallsGetBlock == nblocks' # nblocks \/ (last' # last /\ last'.calls > 0)

\* C14: every call of the provider's get_block is made by a thread that holds
\* the latch at that moment, and by no other: the step is the router call of
\* the one thread between get_alloc and Lock::drop, the flag being true.
C14_GetBlockUnderLatch ==
    [][CallsGetBlock =>
          \E t \in Threads :
              /\ threads[t].pc = "locked"
              /\ Holders = { t }
              /\ lock = TRUE
              /\ last'.thread = t /\ last'.latched]_vars

\* an allocation that extended the router through get_block has just run in a
\* critical section while the other thread was spinning on the latch
C14_Witness ==
    /\ last.op = "alloc" /\ last.ok /\ last.calls > 0 /\ last.latched
    /\ nblocks > 0
    /\ threads[last.thread].pc = "drop"
    /\ \E u \in Threads : u # last.thread /\ Spinning(u)


\* the requests made of a starved provider: one of each category below very large
StarvedLayouts == { <<1, 64>>, <<9, 1>>, <<600, 8>>, <<4096, 8>> }

\* C15: an extend that fails in one of its sub-allocations leaves the chain of
\* its category as it was: whenever an allocate made while the provider refuses
\* every block returns out-of-memory, the chain of the request's category is
\* the one the call started with.
C15_FailedExtendKeepsChain ==
    \A l \in StarvedLayouts :
        \A res \in { router_alloc(Router(0), l[1], l[2]) } :
            (~ res.ok /\ ~ res.r.fatal)
                => res.r.buckets[BucketOf(choose(l[1]))] = buckets[BucketOf(choose(l[1]))]


\* a step that is a call of allocate on the router
AllocateStep == step'.n = step.n + 1 /\ last'.op = "alloc"

\* the provider refused a block during the step: get_block was called more
\* often than blocks were handed out
ProviderRefused == last'.calls > nblocks' - nblocks

\* C16: an allocate never ends in the fatal outcome, wherever the provider
\* refuses a block (none of the unwrap() calls of extend_very_large fails), and
\* an allocate during which the provider refused returns the null pointer.
C16_RefusalGivesNull ==
    [][AllocateStep =>
          /\ ~ fatal'
          /\ ProviderRefused =>
                (~ last'.ok /\ to_raw([ ok |-> last'.ok, ptr |-> last'.ptr ]) = 0)]_vars

\* an allocate has returned null after the provider gave one block, which the
\* metadata bootstrap used, and refused the next one
C16_Witness ==
    /\ last.op = "alloc" /\ ~ last.ok /\ last.ptr = 0
    /\ last.calls > 1
    /\ nblocks > 0 /\ buckets.metadata # << >>
    /\ ~ fatal


\* a step that is a deallocation of size 0
DeallocZeroStep == step' # step /\ last'.op = "dealloc" /\ last'.size = 0

\* C17: a deallocate of size 0 changes nothing, whatever its pointer: every
\* bucket head, with the chains, bitmaps and heights below it, the blocks
\* obtained and the live allocations are as before, and the call returns.
C17_DeallocZeroIsNoOp ==
    [][DeallocZeroStep =>
          /\ buckets' = buckets
          /\ nblocks' = nblocks
          /\ live' = live /\ mem' = mem
          /\ ~ fatal' /\ last'.ok]_vars

\* a deallocate of size 0 has run with the pointer of a live allocation, on a
\* router that has chains
C17_Witness ==
    /\ last.op = "dealloc" /\ last.size = 0 /\ last.ok
    /\ \E a \in live : a.ptr = last.ptr
    /\ buckets.large # << >>


\* thread t has returned from a deallocate of a null pointer with a size other
\* than 0 (the last entry point that returned is that call)
NullDeallocReturned ==
    /\ last.op = "dealloc" /\ last.old_ptr = 0 /\ last.size # 0
    /\ threads[last.thread].req = DeNull(last.size)

NullDeallocCall(t) ==
    /\ threads[t].pc = "idle"
    /\ threads'[t] # threads[t]
    /\ threads'[t].req.op = "dealloc"
    /\ Target(threads'[t].req).ptr = 0

NullReallocRun(t) ==
    /\ threads[t].pc = "locked" /\ threads'[t].pc # "locked"
    /\ threads[t].req.op = "realloc"
    /\ Target(threads[t].req).ptr = 0

\* C19: a reallocate of a null pointer is allocate(new_size, align), for every
\* new_size >= 1: it goes through the latch as that allocate does, returns what
\* the allocate returns from the same state and leaves the router in the state
\* the allocate leaves it in.
C19_NullReallocIsAlloc ==
    [][\A t \in Threads :
          NullReallocRun(t) =>
              \A req \in { threads[t].req } :
              \A res \in { global_alloc(Router(ScriptQuota), req.size, req.align) } :
                  /\ req.size >= 1
                  /\ takes_latch("alloc", 0, req.size)
                  /\ buckets' = res.r.buckets
                  /\ nblocks' = res.r.nblocks
                  /\ last'.ok = res.ok /\ last'.ptr = to_raw(res)
                  /\ res.ok => \E a \in live' : a.ptr = res.ptr /\ a.size = req.size]_vars

\* a reallocate of a null pointer has returned a new allocation, for which the
\* router obtained a block
C19_Witness ==
    /\ last.op = "realloc" /\ last.old_ptr = 0 /\ last.latched
    /\ last.ok /\ last.ptr # 0 /\ last.calls > 0
    /\ \E a \in live : a.ptr = last.ptr /\ a.size = last.size /\ a.id \in threads[last.thread].mine


\* the chunks of the range [ptr, ptr + size) in the stack s
RangeChunks(s, ptr, size) == ChunksOf(s, [ ptr |-> ptr, size |-> size ])

\* the range is allocated: a stack of the chain of its category holds it and
\* has the bit of each of its chunks set
RangeIsLive(ptr, size) ==
    \E i \in NodesHolding(ptr, size) :
        \A s \in { buckets[BucketOf(choose(size))][i].stack } :
            RangeChunks(s, ptr, size) \subseteq s.bitmap

\* the range is deallocated: no stack of the chain of its category that holds
\* it has the bit of one of its chunks set
RangeIsFree(ptr, size) ==
    \A i \in NodesHolding(ptr, size) :
        \A s \in { buckets[BucketOf(choose(size))][i].stack } :
            RangeChunks(s, ptr, size) \cap s.bitmap = {}

\* C20: after a successful reallocate one allocation stands for the object, at
\* the returned pointer with the new size, and its range is allocated; a shrink
\* within one category returns the old pointer; when the pointer changed, the
\* chunks of the old range have been deallocated.
C20_ReallocLeavesOneAllocation ==
    (last.op = "realloc" /\ last.ok) =>
        /\ { a \in live : a.id = last.id }
              = { [ ptr |-> last.ptr, size |-> last.size, align |-> last.align,
                    id |-> last.id ] }
        /\ RangeIsLive(last.ptr, last.size)
        /\ (choose(last.old_size) = choose(last.size) /\ last.size <= last.old_size)
              => last.ptr = last.old_ptr
        /\ last.ptr # last.old_ptr => RangeIsFree(last.old_ptr, last.old_size)


\* C21: when a reallocate returns null because the new allocation could not be
\* obtained, the old allocation still stands: it is live at the old pointer
\* with the old size, its chunks are marked in a stack of its chain, and its
\* contents are as before.
C21_FailedReallocKeepsOld ==
    (last.op = "realloc" /\ ~ last.ok /\ ~ fatal) =>
        /\ [ ptr |-> last.old_ptr, size |-> last.old_size, align |-> last.align,
             id |-> last.id ] \in live
        /\ RangeIsLive(last.old_ptr, last.old_size)
        /\ Contents(mem, last.old_ptr, MinInt(last.old_size, last.size)) = last.old_contents


\* C22: in every reachable state of a chunk stack, no bitmap bit at an index at
\* or above current_height is set.
C22_NoBitAboveHeight ==
    \A b \in stack.bitmap : b < stack.current_height


\* a step that deallocates chunks of the stack: a dealloc, or a shrink_in_place
\* that returned
StackFrees == slast' # slast /\ slast'.op \in { "dealloc", "shrink" } /\ slast'.ok

\* C23: after a deallocation on a chunk stack (dealloc, or shrink_in_place),
\* current_height is 64 minus the number of leading zero bits of the bitmap.
C23_HeightIsTopBitAfterFree ==
    [][StackFrees => stack'.current_height = 64 - LeadingZeros(stack'.bitmap)]_vars


\* the live allocations of the stack that hold at least one byte
SHolding == { a \in slive : a.size > 0 }

\* C24: in every reachable state the stack reports is_empty() exactly when its
\* bitmap is zero, and exactly when it holds no live allocation.
C24_EmptyIffNoAllocation ==
    /\ is_empty(stack) <=> stack.bitmap = {}
    /\ is_empty(stack) <=> SHolding = {}


\* chunk ranges << start, length >> inside the stack: short, long and whole
MaskRanges ==
    { rg \in { 0, 1, 2, 33, 62, 63 } \X { 1, 2, 31, 62, 63, 64 } : rg[1] + rg[2] <= STACK_SIZE }

\* C25: for a range of n chunks starting at chunk s, 1 <= n <= 64 and
\* s + n <= 64, bitmap_allocate sets and bitmap_deallocate clears exactly the
\* bits s .. s + n - 1 (all 64 bits for n = 64), on every reachable stack.
C25_MaskCoversRange ==
    \A rg \in MaskRanges :
        /\ bitmap_allocate(stack, rg[1], rg[1] + rg[2]).bitmap
              = stack.bitmap \cup (rg[1] .. (rg[1] + rg[2] - 1))
        /\ bitmap_deallocate(stack, rg[1], rg[1] + rg[2]).bitmap
              = stack.bitmap \ (rg[1] .. (rg[1] + rg[2] - 1))


\* a step that is a call of alloc on the stack
StackAllocStep == step'.n = step.n + 1 /\ slast'.op = "alloc"

\* x rounded up to a multiple of a
RoundedUp(x, a) == ((x + a - 1) \div a) * a

\* ceil(bytes / chunk_size)
CeilChunks(bytes) == (bytes + stack.chunk_size - 1) \div stack.chunk_size

\* the chunk index of the top of the stack rounded up to align
AlignedTop(align) ==
    (RoundedUp(stack.bottom + stack.current_height * stack.chunk_size, align) - stack.bottom)
        \div stack.chunk_size

\* C26: alloc(size, align) on a stack fails exactly when bottom + ceil(size /
\* chunk_size) > 64, bottom being the chunk index of the top rounded up to
\* align; a failure leaves bitmap and current_height as they were; a success
\* returns base + bottom * chunk_size, sets the bits bottom .. bottom + chunks - 1
\* and sets current_height to bottom + chunks.  On a fresh stack of 64 chunks of
\* 8 bytes 1024 bytes fail and 496 bytes succeed.
C26_StackAllocContract ==
    [][StackAllocStep =>
          \A bottom \in { AlignedTop(slast'.align) }, chunks \in { CeilChunks(slast'.size) } :
              /\ slast'.ok <=> ~ (bottom + chunks > STACK_SIZE)
              /\ ~ slast'.ok => stack' = stack
              /\ slast'.ok =>
                    /\ slast'.ptr = stack.bottom + bottom * stack.chunk_size
                    /\ stack'.bitmap = stack.bitmap \cup (bottom .. (bottom + chunks - 1))
                    /\ stack'.current_height = bottom + chunks
              /\ (stack = NewStack(stack.bottom, 8) /\ slast'.size = 1024) => ~ slast'.ok
              /\ (stack = NewStack(stack.bottom, 8) /\ slast'.size = 496
                    /\ slast'.align = 8) => slast'.ok]_vars


\* C27: on a chunk stack a successful alloc(size, align) immediately followed by
\* the dealloc of the returned pointer with the same size restores bitmap and
\* current_height to their values before the alloc, for every size and every
\* alignment (padding chunks included); from the empty stack the result is the
\* empty state.
C27_AllocDeallocRestores ==
    \A size \in StackSizes, align \in StackAligns :
       \A res \in { stack_alloc(stack, size, align) } :
          res.ok =>
             \A after \in { stack_dealloc(res.s, res.ptr, size) } :
                /\ after.bitmap = stack.bitmap
                /\ after.current_height = stack.current_height


\* the chunks a dealloc or a shrink_in_place of allocation a gives back
FreedChunks(a, op, new_size) ==
    IF op = "dealloc" THEN ChunksOf(stack, a)
    ELSE ChunksOf(stack, a) \ ChunksOf(stack, [ a EXCEPT !.size = new_size ])

StackGrowStep == step'.n = step.n + 1 /\ slast'.op = "grow" /\ ~ fatal'

MaxInt(a, b) == IF a > b THEN a ELSE b

\* C29: grow_in_place(ptr, old_size, new_size) succeeds exactly when start +
\* ceil(new_size / chunk_size) <= 64 and every chunk of old_end .. new_end - 1
\* is free; on success exactly those bits become set and current_height becomes
\* max(current_height, new_end); on failure bitmap and current_height are
\* unchanged.
C29_GrowInPlaceContract ==
    [][StackGrowStep =>
          \A a \in { x \in slive : x.id = slast'.id } :
          \A old_end \in { ptr_to_chunk(stack, a.ptr) + CeilChunks(a.size) },
             new_end \in { ptr_to_chunk(stack, a.ptr) + CeilChunks(slast'.size) } :
              /\ slast'.ok <=> /\ new_end <= STACK_SIZE
                               /\ (old_end .. (new_end - 1)) \cap stack.bitmap = {}
              /\ slast'.ok =>
                    /\ stack'.bitmap = stack.bitmap \cup (old_end .. (new_end - 1))
                    /\ stack'.current_height = MaxInt(stack.current_height, new_end)
              /\ ~ slast'.ok => stack' = stack]_vars


\* pointers around both ends of the memory of the stack, chunk-aligned and not
OwnsProbes ==
    { stack.bottom + d : d \in { -1, 0, 1, stack.chunk_size - 1, stack.chunk_size + 3,
                                 (STACK_SIZE - 1) * stack.chunk_size - 1,
                                 (STACK_SIZE - 1) * stack.chunk_size,
                                 (STACK_SIZE - 1) * stack.chunk_size + 1,
                                 STACK_SIZE * stack.chunk_size - 1,
                                 STACK_SIZE * stack.chunk_size,
                                 STACK_SIZE * stack.chunk_size + 1 } }

\* C30: owns(ptr) of a stack is true exactly for the pointers of the half-open
\* interval [base, base + 64 * chunk_size), for every chunk size and for
\* pointers that are not chunk-aligned as well.
C30_OwnsIsHalfOpenRange ==
    \A p \in OwnsProbes :
        owns(stack, p) <=> (stack.bottom <= p /\ p < stack.bottom + STACK_SIZE * stack.chunk_size)


\* the largest number of chunks one allocation can obtain from a stack now: alloc
\* places it at the top and asks for bottom * chunk_size + size <= 64 * chunk_size
Obtainable(s) == MaxInt(0, STACK_SIZE - bottom_of_alloc(s, 1))

\* C31: in every reachable state the cached largest-free count of every chain
\* node is at least the largest number of chunks a single allocation could
\* obtain from the stack of that node, so the fast-reject test (size >
\* cached_largest_free * chunk_size) never skips a node whose stack could have
\* served the request.
C31_CachedLargestFreeIsUpperBound ==
    \A f \in Fields : \A node \in NodesOf(f) :
        node.largest_free >= Obtainable(node.stack)


\* no stack of the chain holds a set bit of the range [ptr, ptr + size)
FreeInChain(chain, ptr, size) ==
    \A i \in 1 .. Len(chain) :
        InStack(chain[i].stack, ptr, size) =>
            RangeChunks(chain[i].stack, ptr, size) \cap chain[i].stack.bitmap = {}

\* C32: when a deallocation empties a node below the head of its chain, the
\* chain loses exactly that node, the call returns, and within that same call
\* the router has deallocated the stack of the removed node in the parent chain
\* and its header in the metadata chain.
C32_CollapseFreesStackAndHeader ==
    [][ (last'.op = "dealloc" /\ step'.n # step.n /\ EmptiesNonHead(last'.ptr, last'.size))
        => \A f \in { BucketOf(choose(last'.size)) } :
           \A i \in { EmptiedNode(last'.ptr, last'.size) } :
           \A node \in { buckets[f][i] } :
              /\ ~ fatal'
              /\ Len(buckets'[f]) = Len(buckets[f]) - 1
              /\ \A k \in 1 .. Len(buckets'[f]) :
                    buckets'[f][k].stack.bottom = RemoveAt(buckets[f], i)[k].stack.bottom
              /\ ParentOf(f) # "provider" =>
                    FreeInChain(buckets'[ParentOf(f)], node.stack.bottom,
                                node.stack.chunk_size * STACK_SIZE)
              /\ FreeInChain(buckets'.metadata, node.hdr, HEADER_SIZE) ]_vars


\* the chunk size of the category a bucket holds
FieldChunkSize(f) ==
    CASE f = "very_small" -> VERY_SMALL_CHUNK_SIZE
      [] f = "small"      -> SMALL_CHUNK_SIZE
      [] f = "medium"     -> MEDIUM_CHUNK_SIZE
      [] f = "metadata"   -> METADATA_CHUNK_SIZE
      [] f = "large"      -> LARGE_CHUNK_SIZE
      [] f = "very_large" -> VERY_LARGE_CHUNK_SIZE

\* C33: in every reachable state every node linked in the chain of a bucket has
\* the chunk size of the category of that bucket (very_small 1, small 8, medium
\* 64, metadata 64, large 512, very_large 4096), the nodes installed by a
\* metadata extension that also had to extend the very-large chain included.
C33_NodesHaveCategoryChunkSize ==
    \A f \in Fields : \A node \in NodesOf(f) : node.stack.chunk_size = FieldChunkSize(f)


\* the range [ptr, ptr + size) is marked in a stack of the chain that holds it
MarkedInChain(chain, ptr, size) ==
    \E i \in 1 .. Len(chain) :
        /\ InStack(chain[i].stack, ptr, size)
        /\ RangeChunks(chain[i].stack, ptr, size) # {}
        /\ RangeChunks(chain[i].stack, ptr, size) \subseteq chain[i].stack.bitmap

\* the chains that are longer after the step than before it
Extended == { f \in Fields : Len(buckets'[f]) > Len(buckets[f]) }

---------------------------------------------------------------------------
\* every owner lookup of one router dealloc finds a chain and a node that owns
\* the pointer, the lookups of the recursive deallocation of a collapsed
\* node's stack included
RECURSIVE OwnerLookupsSucceed(_, _, _)
OwnerLookupsSucceed(r, ptr, size) ==
    IF size = 0 THEN TRUE
    ELSE IF owner_of_fails(r, ptr, size) THEN FALSE
    ELSE \A f \in { BucketOf(choose(size)) } :
         \A d \in { chain_dealloc(r.buckets[f], ptr, size) } :
            /\ ~ d.panic
            /\ d.response = "FreeNode" =>
                  OwnerLookupsSucceed(SetB(r, f, d.chain), d.node[1].stack.bottom,
                                      d.node[1].stack.chunk_size * STACK_SIZE)

\* C35: whenever the router deallocates or reallocates an allocation with the
\* layout it has, the chain of its size category exists and one of its nodes
\* owns the pointer, also in the recursive deallocation of the stack of a
\* collapsed node (of 64 chunks of the node's chunk size), for every category:
\* neither the debug_assert of owner_of nor the expect of dealloc fails
C35_OwnerLookupNeverFails ==
    [][ (step'.n # step.n /\ ~ fatal) =>
          /\ last'.op = "dealloc" => OwnerLookupsSucceed(Router(0), last'.ptr, last'.size)
          /\ (last'.op = "realloc" /\ choose(last'.old_size) = choose(last'.size)) =>
                ~ owner_of_fails(Router(0), last'.old_ptr, last'.old_size)
      ]_vars


---------------------------------------------------------------------------
\* the header of the node is stored in an allocated chunk of the node's own stack
SelfHosted(node) ==
    /\ node.hdr # 0
    /\ InStack(node.stack, node.hdr, HEADER_SIZE)
    /\ RangeChunks(node.stack, node.hdr, HEADER_SIZE) \subseteq node.stack.bitmap

\* C36: the first successful allocate on an empty bucket set leaves a metadata
\* chain whose node stores its own header in a chunk of its own stack and a
\* very-large head whose header is in another, allocated chunk of the metadata
\* chain; no node of a chain that takes its stacks from another chain has its
\* header in its own stack (only the nodes of the bootstrap are built before
\* their header has a place), a new metadata node appears only when the
\* metadata chain was absent or its former nodes cannot supply a header chunk,
\* and each new metadata node is self-hosted
C36_BootstrapSelfHostsOncePerBirth ==
    [][ (last'.op = "alloc" /\ step'.n # step.n /\ last'.ok /\ ~ fatal') =>
          /\ buckets = NewBuckets =>
                /\ Len(buckets'.metadata) = 1
                /\ SelfHosted(buckets'.metadata[1])
                /\ buckets'.very_large # << >>
                /\ MarkedInChain(buckets'.metadata, buckets'.very_large[1].hdr, HEADER_SIZE)
                /\ RangeChunks(buckets'.metadata[1].stack, buckets'.very_large[1].hdr, HEADER_SIZE)
                     \cap RangeChunks(buckets'.metadata[1].stack, buckets'.metadata[1].hdr,
                                      HEADER_SIZE) = {}
          /\ \A f \in Fields \ { "metadata", "very_large" } : \A i \in 1 .. Len(buckets'[f]) :
                ~ InStack(buckets'[f][i].stack, buckets'[f][i].hdr, HEADER_SIZE)
          /\ Len(buckets'.metadata) > Len(buckets.metadata) =>
                \A d \in { Len(buckets'.metadata) - Len(buckets.metadata) } :
                   /\ \A n \in 1 .. d : SelfHosted(buckets'.metadata[n])
                   /\ \A k \in 1 .. Len(buckets.metadata) :
                         /\ buckets'.metadata[k + d].stack.bottom = buckets.metadata[k].stack.bottom
                         /\ ~ chain_alloc(<< buckets'.metadata[k + d] >>, HEADER_SIZE,
                                          HEADER_ALIGN).ok
      ]_vars


\* the script rebirth has made its allocate of one very-large chunk with the
\* metadata stack and the very-large stack both full: the new block carries a
\* second metadata node, which holds its own header and the header of the block
C36_Witness ==
    /\ step.script = "rebirth" /\ step.n = Len(FullStart) + 1
    /\ last.op = "alloc" /\ last.ok /\ ~ fatal
    /\ Len(buckets.metadata) = 2
    /\ SelfHosted(buckets.metadata[1])
    /\ InStack(buckets.metadata[1].stack, buckets.very_large[1].hdr, HEADER_SIZE)
    /\ InStack(buckets.very_large[1].stack, buckets.metadata[1].stack.bottom, 1)
    /\ buckets.metadata[2].stack.bitmap = Bits


---------------------------------------------------------------------------
\* the nodes that are linked in some chain, each with its place
LinkedNodes == UNION { { << f, i >> : i \in 1 .. Len(buckets[f]) } : f \in Fields }

HeaderRange(p) == buckets[p[1]][p[2]].hdr .. (buckets[p[1]][p[2]].hdr + HEADER_SIZE - 1)

\* C37: in every reachable state the header of every node that is linked in a
\* chain lies in a chunk range of the metadata chain that is marked allocated,
\* the header ranges of distinct nodes are disjoint, and no header range
\* overlaps an allocation the caller holds (a header is given back only after
\* its node left its chain)
C37_HeadersLiveInMetadataChain ==
    ~ fatal =>
       /\ \A p \in LinkedNodes :
             MarkedInChain(buckets.metadata, buckets[p[1]][p[2]].hdr, HEADER_SIZE)
       /\ \A p, q \in LinkedNodes : p # q => HeaderRange(p) \cap HeaderRange(q) = {}
       /\ \A p \in LinkedNodes : \A a \in live : HeaderRange(p) \cap Range(a) = {}


---------------------------------------------------------------------------
\* C38: a node of the metadata chain never becomes empty while it is linked:
\* after every router call each metadata node still holds its own header in an
\* allocated chunk of its own stack (so is_empty is false for it), and no call
\* removes a node from the metadata chain, that is, no deallocation of a
\* header yields a collapse of a metadata node whose token the router would
\* discard
C38_MetadataNodeNeverEmpty ==
    [][ ~ fatal' =>
          /\ \A i \in 1 .. Len(buckets'.metadata) :
                /\ SelfHosted(buckets'.metadata[i])
                /\ ~ is_empty(buckets'.metadata[i].stack)
          /\ \A d \in { Len(buckets'.metadata) - Len(buckets.metadata) } :
                /\ d >= 0
                /\ \A k \in 1 .. Len(buckets.metadata) :
                      buckets'.metadata[k + d].stack.bottom = buckets.metadata[k].stack.bottom
      ]_vars

\* the script rebirth has ended: its deallocate collapsed a very-small node
\* whose header was in the full, older metadata node, which keeps 63 headers
C38_Witness ==
    /\ step.script = "rebirth" /\ step.n = Len(Script("rebirth"))
    /\ last.op = "dealloc" /\ ~ fatal
    /\ Len(buckets.metadata) = 2
    /\ Cardinality(buckets.metadata[2].stack.bitmap) = STACK_SIZE - 1
    /\ SelfHosted(buckets.metadata[2])
    /\ Len(buckets.very_small) = 29


---------------------------------------------------------------------------
\* the nodes the step removed from the chain f (when the step ends in a panic,
\* buckets' is the bucket set at the panic)
Collapsed(f) ==
    { n \in NodesOf(f) :
        \A i \in 1 .. Len(buckets'[f]) : buckets'[f][i].stack.bottom # n.stack.bottom }

\* C39: whenever a node is collapsed (spliced out of its chain), no allocation
\* the caller still holds, no header of a node that is still linked and no
\* stack of a node that is still linked lies inside the stack of that node,
\* after any sequence of allocate, deallocate and reallocate calls with
\* matching layouts, shrinks of allocations that spanned a whole stack included
C39_CollapsedStackHoldsNothingLive ==
    [][ (last'.op = "dealloc" \/ (last'.op = "realloc" /\ (last'.ok \/ fatal'))) =>
          \A f \in Fields : \A n \in Collapsed(f) :
             /\ \A a \in live' : BucketOf(choose(a.size)) = f =>
                   ~ InStack(n.stack, a.ptr, a.size)
             /\ \A g \in Fields : \A i \in 1 .. Len(buckets'[g]) :
                   /\ f = "metadata" => ~ InStack(n.stack, buckets'[g][i].hdr, HEADER_SIZE)
                   /\ ParentOf(g) = f =>
                         ~ InStack(n.stack, buckets'[g][i].stack.bottom,
                                   STACK_SIZE * buckets'[g][i].stack.chunk_size)
      ]_vars


---------------------------------------------------------------------------
\* the request is one the claim speaks of: a size of some category and an
\* alignment that is a power of two not above the chunk size of that category
PlainRequest(size, align) ==
    /\ size \in 1 .. (STACK_SIZE * VERY_LARGE_CHUNK_SIZE)
    /\ align \in { 2 ^ k : k \in 0 .. 12 }
    /\ align <= FieldChunkSize(BucketOf(choose(size)))

\* C40: for every size in 1..=262144 and every power-of-two alignment that does
\* not exceed the chunk size of the category, router allocate returns failure
\* only if a call to the backing provider made during that allocate signalled
\* unavailability; with a provider that supplies every block it is asked for,
\* every such request succeeds (one extension step suffices)
C40_FailureOnlyWhenProviderRefuses ==
    [][ (last'.op = "alloc" /\ step'.n # step.n /\ ~ fatal'
         /\ PlainRequest(last'.size, last'.align) /\ ~ last'.ok) => ProviderRefused ]_vars

=============================================================================
